---- MODULE Spec2Model ----
(***************************************************************************)
(* PocketClaude: the Relay (relay-server/src/index.ts and                  *)
(* connection-manager.ts) and the Agent (pc-agent/src/index.ts,            *)
(* session-manager.ts, history-manager.ts, reconnect.ts) as state machines.*)
(*                                                                         *)
(* Spec       the Relay: one action per socket event and timer.            *)
(* SpecAgent  the Agent: uplink events, commands, PTY events, idle timer.  *)
(***************************************************************************)
EXTENDS Integers, Sequences, FiniteSets, TLC

(***************************************************************************)
(* Bounds of the model.                                                    *)
(***************************************************************************)
\* events the Relay handles in one behaviour
MaxSteps == 7

\* events the Agent handles in one behaviour
MaxAgentSteps == 7
\* the attempt counters getNextDelay is applied to: 0..MaxAttempt and LargeAttempts
MaxAttempt == 40
\* Math.random() takes the values k / RandSteps, k in 0..RandSteps-1
RandSteps == 4
\* the longest list of sessions the browser Client caches or is sent
MaxListLen == 2
\* the number of status messages the browser Client handles
MaxMessages == 1
\* the number of lines of output the chat adapter is given
MaxLines == 3

\* events of the chat adapter's RelayClient in a run
MaxClientSteps == 7

\* the clock of the chat adapter runs for this many half timeouts
MaxFormatterTicks == 4
\* the longest file name upload_file is given, the example of the spec aside
MaxNameLen == 3

\* the sockets the Relay's WebSocketServer hands to wss.on('connection')
Conns == {"w1", "w2", "w3"}

(***************************************************************************)
(* Program constants of the Relay.                                         *)
(***************************************************************************)
HEARTBEAT_INTERVAL == 30000
PONG_TIMEOUT == 60000
CLOSE_AUTH == 4001
CLOSE_AGENT_EXISTS == 4002
CLOSE_INVALID_ROLE == 4003
RELAY_TOKEN == "good"

Before(a, b) == <<a, b>> \in {<<"w1", "w2">>, <<"w1", "w3">>, <<"w2", "w3">>}

NoAgent == [ws |-> "none", lastPong |-> 0]

(***************************************************************************)
(* Program constants of the Agent.                                         *)
(***************************************************************************)
BUFFER_MAX_LINES == 100
IDLE_TIMEOUT == 30 * 60 * 1000
IDLE_CHECK_INTERVAL == 5 * 60 * 1000
QUICK_SESSION_PROJECT_ID == "__quick__"
\* the ids of projects.json
projects == {"p1"}

VARIABLES
  \* ---- Relay ----
  sock,           \* ws.readyState of each socket: "CLOSED", "OPEN", "CLOSING"
  rx,             \* whether frames of the peer can still arrive on the socket
  closeCode,      \* the code the Relay passed to ws.close(), 0 if none
  authenticated,  \* closure variable of wss.on('connection')
  role,           \* closure variable of wss.on('connection'): "null", "agent", "client"
  agent,          \* ConnectionManager.agent: NoAgent or [ws, lastPong]
  clients,        \* ConnectionManager.clients: function ws -> lastPong
  outbox,         \* per socket, the frames the Relay handed to ws.send, in order
  now,            \* Date.now() at the Relay
  sendFailed,     \* the sockets on which ws.send threw during the last event
  nsent,          \* per socket name, the number of frames peers have sent on it
  steps,          \* number of events handled so far
  validAuth,      \* history: the socket has sent auth with the token and a role in {agent, client}
  lastHeard,      \* history: per registered socket, when it was registered or last sent a pong
  \* ---- Agent ----
  agentWs,        \* ws of index.ts: "null", or the readyState "CONNECTING", "OPEN", "CLOSING"
  sessionManager, \* whether sessionManager has been constructed (its idle timer runs)
  sessions,       \* SessionManager.sessions: sessionId -> Session
  pty,            \* per session ever started, its PTY: "running", "killed", "exited"
  records,        \* HistoryManager.sessions: sessionId -> SessionRecord
  summaryFile,    \* on disk: sessionId -> the summary last written
  outputFile,     \* on disk: sessionId -> the chunks appended to the .log
  sessionProjectMap, \* sessionId -> projectId
  attempt,        \* ReconnectManager.attempt
  timer,          \* ReconnectManager.timer is pending
  upSent,         \* the frames the Agent has written to its uplink socket, in order
  closedCalls,    \* per session, how often onSessionClosed was invoked
  agentNow,       \* Date.now() at the Agent
  nextId,         \* the next uuid
  produced,       \* number of PTY data chunks so far
  offline,        \* history: the chunks produced while the uplink socket was not open
  halted,         \* the process has exited
  rejectedAt,     \* history: attempt when the uplink socket got AGENT_EXISTS, -1 if it has not
  platform,       \* process.platform: "posix" or "win32"
  uploads,        \* on disk: the files upload_file has written, as [dir, name]
  uplinks,        \* number of WebSocket objects connect() has made that have not closed
  timeouts,       \* number of setTimeout callbacks of the ReconnectManager still to run
  agentSteps,     \* number of events handled so far
  \* ---- ReconnectManager.getNextDelay in isolation ----
  delay,          \* RandSteps times the delay last returned by getNextDelay, -1 if none
  \* ---- the browser Client (RelayProvider) ----
  clientSessions, \* the sessions state: a sequence of SessionInfo
  browserNow,     \* Date.now() of the browser
  inbox,          \* the status message ws.onmessage is about to hand to handleMessage
  handled,        \* number of messages handleMessage has processed
  \* ---- the chat adapter's OutputFormatter, one session ----
  bufferContent,  \* buffer.content: the lines added, each [len, codeAt, id], each ended by "\n"
  bufferTimer,    \* buffer.timer is set
  flushPending,   \* the setTimeout callback of addOutput is still to run
  timerDue,       \* when it is to run, -1 if buffer.timer is null
  formatterNow,   \* the time at the chat adapter, in ms
  lastAdded,      \* history: the time of the last addOutput, -1 if none
  sentMessages,   \* the messages passed to outputCallback, in order
  addedLines,     \* number of addOutput calls so far
  \* ---- the PTY side of the SessionManager ----
  pending,        \* the setTimeout callbacks still to run, as [sessionId, kind]
  written,        \* the pty.write calls made so far, as [sessionId, kind], in order
  \* ---- the chat adapter's RelayClient ----
  clientSockets,  \* the readyState of each WebSocket connect() has made, in order
  clientWs,       \* this.ws: an index of clientSockets, 0 for null
  clientState,    \* this.state
  reconnectAttempt, \* this.reconnectAttempt
  reconnectTimer, \* this.reconnectTimer is set
  pingInterval,   \* this.pingInterval is set
  shouldReconnect, \* this.shouldReconnect
  clientTimeouts, \* number of setTimeout callbacks of scheduleReconnect still to run
  clientHandled,  \* number of frames handleMessage has been given
  clientSteps,    \* number of events handled so far
  memoryHeap,     \* MemoryManager: the objects and arrays a Memory refers to, by address
  memory,         \* this.memory: version and the addresses of its three containers
  memoryFile,     \* <<the parsed content of memory.json>>, <<>> when it does not exist
  dirty,          \* this.dirty
  saveDebounceTimer, \* the callback of the debounce timer of save() is still to run
  memorySteps,    \* number of MemoryManager calls and timer callbacks so far
  pendingTasks,   \* TaskWatcher: this.pendingTasks, its tasks in insertion order
  taskReceived,   \* the tasks onTaskReceived was called with, as they were then
  taskCall,       \* the last request or call and what it returned
  taskHistory,    \* every <<taskId, status>> a task of the Map has had so far
  taskSteps       \* number of TaskWatcher requests and calls so far

relayVars == <<sock, rx, closeCode, authenticated, role, agent, clients, outbox,
               now, sendFailed, nsent, steps, validAuth, lastHeard>>

agentVars == <<agentWs, sessionManager, sessions, pty, records, summaryFile, outputFile,
               sessionProjectMap, attempt, timer, upSent, closedCalls, agentNow, nextId,
               produced, offline, halted, rejectedAt, platform, uploads, uplinks,
               timeouts, agentSteps>>

browserVars == <<clientSessions, browserNow, inbox, handled>>

formatterVars == <<bufferContent, bufferTimer, flushPending, timerDue, formatterNow, lastAdded,
                   sentMessages, addedLines>>

ptyVars == <<pending, written>>

relayClientVars == <<clientSockets, clientWs, clientState, reconnectAttempt, reconnectTimer,
                     pingInterval, shouldReconnect, clientTimeouts, clientHandled, clientSteps>>

memoryVars == <<memoryHeap, memory, memoryFile, dirty, saveDebounceTimer, memorySteps>>

taskVars == <<pendingTasks, taskReceived, taskCall, taskHistory, taskSteps>>

\* the state of the chat adapter and of the Agent's stores
otherVars == <<relayClientVars, memoryVars, taskVars>>

vars == <<relayVars, agentVars, delay, browserVars, formatterVars, ptyVars, otherVars>>

(***************************************************************************)
(* The Relay's state as one record, so that each method of the code is an  *)
(* operator from state to state and a handler is their composition.        *)
(***************************************************************************)
R == [sock |-> sock, rx |-> rx, closeCode |-> closeCode,
      authenticated |-> authenticated, role |-> role,
      agent |-> agent, clients |-> clients, outbox |-> outbox, now |-> now,
      thrown |-> {}]

\* frames a peer can put on the wire
\* (the role of an auth frame with a wrong token is never read)
AuthFrames == [type : {"auth"}, token : {"good"}, role : {"agent", "client", "other"}]
                 \cup {[type |-> "auth", token |-> "bad", role |-> "agent"]}
DataFrames == [type : {"command", "output"}, token : {"-"}, role : {"-"}]
BadJson == [type |-> "badjson", token |-> "-", role |-> "-"]
PeerFrames == AuthFrames \cup DataFrames \cup {BadJson}

\* frames the Relay writes
\* code: the error code or the status; seq: the sender's frame number (0 for the Relay's own)
Frame(type, src, seq, code, reason, r, ac) ==
  [type |-> type, src |-> src, seq |-> seq, code |-> code, reason |-> reason,
   role |-> r, agentConnected |-> ac]
ErrorFrame(code) == Frame("error", "relay", 0, code, "-", "-", FALSE)
AgentConnected == Frame("status", "relay", 0, "connected", "agent_connected", "-", FALSE)
AgentDisconnected == Frame("status", "relay", 0, "disconnected", "agent_disconnected", "-", FALSE)
Connected(r, ac) == Frame("status", "relay", 0, "connected", "-", r, ac)
Forwarded(m, ws, n) == Frame(m.type, ws, n, "-", "-", "-", FALSE)

(***************************************************************************)
(* The ws library calls the code makes.                                    *)
(***************************************************************************)
\* ws.send(data): written to the peer only while the socket is OPEN
wsSend(st, ws, f) ==
  IF st.sock[ws] = "OPEN" THEN [st EXCEPT !.outbox[ws] = Append(@, f)] ELSE st

\* ws.close(code): starts the closing handshake of an OPEN socket; frames of
\* the peer still arrive until the peer answers
wsClose(st, ws, code) ==
  IF st.sock[ws] = "OPEN"
  THEN [st EXCEPT !.sock[ws] = "CLOSING", !.closeCode[ws] = code]
  ELSE st

\* ws.terminate(): destroys the socket; 'close' is emitted later
wsTerminate(st, ws) ==
  IF st.sock[ws] = "CLOSED" THEN st
  ELSE [st EXCEPT !.sock[ws] = "CLOSING", !.rx[ws] = FALSE]

(***************************************************************************)
(* ConnectionManager                                                       *)
(***************************************************************************)
\* (mutant: the state of the agent's socket is not looked at)
hasAgent_NoState(st) == st.agent # NoAgent

hasAgent(st) == st.agent # NoAgent /\ st.sock[st.agent.ws] = "OPEN"

getClientCount(st) == Cardinality(DOMAIN st.clients)

\* (mutant: the hasAgent() guard is missing)
registerAgent_NoGuard(st, ws) ==
  [ok |-> TRUE, st |-> [st EXCEPT !.agent = [ws |-> ws, lastPong |-> st.now]]]

\* ok: the value returned; st: the state afterwards
registerAgent(st, ws) ==
  IF hasAgent(st) THEN [ok |-> FALSE, st |-> st]
  ELSE [ok |-> TRUE, st |-> [st EXCEPT !.agent = [ws |-> ws, lastPong |-> st.now]]]

registerClient(st, ws) ==
  [st EXCEPT !.clients = [c \in DOMAIN st.clients \cup {ws} |-> IF c = ws THEN st.now ELSE st.clients[c]]]

\* (mutant: the frame is put before the frames already written)
broadcastToClients_Reorder(st, f, failed) ==
  LET open == {c \in DOMAIN st.clients : st.sock[c] = "OPEN"}
  IN [st EXCEPT !.outbox = [c \in Conns |->
                   IF c \in open \ failed THEN <<f>> \o st.outbox[c] ELSE st.outbox[c]],
                !.thrown = @ \cup (open \cap failed)]

\* (mutant: the first exception ends the loop and nobody gets the frame)
broadcastToClients_Abort(st, f, failed) ==
  LET open == {c \in DOMAIN st.clients : st.sock[c] = "OPEN"}
  IN [st EXCEPT !.outbox = [c \in Conns |->
                   IF c \in open /\ open \cap failed = {}
                   THEN Append(st.outbox[c], f) ELSE st.outbox[c]],
                !.thrown = @ \cup (open \cap failed)]

\* failed: the clients for which ws.send throws (caught and logged)
broadcastToClients(st, f, failed) ==
  LET open == {c \in DOMAIN st.clients : st.sock[c] = "OPEN"}
  IN [st EXCEPT !.outbox = [c \in Conns |->
                   IF c \in open \ failed THEN Append(st.outbox[c], f) ELSE st.outbox[c]],
                !.thrown = @ \cup (open \cap failed)]

removeConnection(st, ws, failed) ==
  IF st.agent # NoAgent /\ st.agent.ws = ws
  THEN broadcastToClients([st EXCEPT !.agent = NoAgent], AgentDisconnected, failed)
  ELSE IF ws \in DOMAIN st.clients
       THEN [st EXCEPT !.clients = [c \in DOMAIN st.clients \ {ws} |-> st.clients[c]]]
       ELSE st

\* agentFails: ws.send to the agent throws (caught, false returned)
sendToAgent(st, f, agentFails) ==
  IF ~hasAgent(st) THEN st
  ELSE IF agentFails THEN [st EXCEPT !.thrown = @ \cup {st.agent.ws}]
  ELSE [st EXCEPT !.outbox[st.agent.ws] = Append(@, f)]

updatePong(st, ws) ==
  IF st.agent # NoAgent /\ st.agent.ws = ws
  THEN [st EXCEPT !.agent.lastPong = st.now]
  ELSE IF ws \in DOMAIN st.clients
       THEN [st EXCEPT !.clients[ws] = st.now]
       ELSE st

\* the agent half of pingAll
pingAgent(st) ==
  IF st.agent # NoAgent /\ st.now - st.agent.lastPong > PONG_TIMEOUT
  THEN [wsTerminate(st, st.agent.ws) EXCEPT !.agent = NoAgent]
  ELSE st

TimedOutClients(st) == {c \in DOMAIN st.clients : st.now - st.clients[c] > PONG_TIMEOUT}

RECURSIVE terminateAll(_, _)
terminateAll(st, S) ==
  IF S = {} THEN st
  ELSE LET c == CHOOSE x \in S : TRUE
       IN terminateAll(wsTerminate(st, c), S \ {c})

\* the client half of pingAll
pingClients(st) ==
  LET dead == TimedOutClients(st)
      t == terminateAll(st, dead)
  IN [t EXCEPT !.clients = [c \in DOMAIN st.clients \ dead |-> st.clients[c]]]

pingAll(st) == pingClients(pingAgent(st))

\* the sockets pingAll sends a ping to
Pinged(st) ==
  {c \in Conns :
     /\ st.sock[c] = "OPEN"
     /\ \/ (st.agent # NoAgent /\ st.agent.ws = c /\ ~(st.now - st.agent.lastPong > PONG_TIMEOUT))
        \/ (c \in DOMAIN st.clients /\ ~(st.now - st.clients[c] > PONG_TIMEOUT))}

(***************************************************************************)
(* index.ts of the Relay                                                   *)
(***************************************************************************)
sendError(st, ws, code) == wsSend(st, ws, ErrorFrame(code))

\* lines 90-103: authenticated = true and the status reply
authReply(st, ws, r) ==
  LET a == [st EXCEPT !.role[ws] = r, !.authenticated[ws] = TRUE]
  IN wsSend(a, ws, Connected(r, hasAgent(a)))

\* (mutant: the token is not compared)
tokenMismatch_Never(m) == FALSE

\* payload.token !== RELAY_TOKEN
tokenMismatch(m) == m.token # RELAY_TOKEN

\* ws.on('message') for message type auth
onAuth(st, ws, m, failed) ==
  IF tokenMismatch(m)
  THEN wsClose(sendError(st, ws, "AUTH_FAILED"), ws, CLOSE_AUTH)
  ELSE IF m.role = "agent"
  THEN IF ~registerAgent(st, ws).ok
       THEN wsClose(sendError(st, ws, "AGENT_EXISTS"), ws, CLOSE_AGENT_EXISTS)
       ELSE authReply(
              broadcastToClients([registerAgent(st, ws).st EXCEPT !.role[ws] = "agent"],
                                 AgentConnected, failed),
              ws, "agent")
  ELSE IF m.role = "client"
  THEN authReply(registerClient(st, ws), ws, "client")
  ELSE wsClose(sendError(st, ws, "INVALID_ROLE"), ws, CLOSE_INVALID_ROLE)

\* ws.on('message') after authentication: routing by role
route(st, ws, m, n, failed, agentFails) ==
  IF st.role[ws] = "client"
  THEN IF m.type = "command"
       THEN IF ~hasAgent(st) THEN sendError(st, ws, "NO_AGENT")
            ELSE sendToAgent(st, Forwarded(m, ws, n), agentFails)
       ELSE st
  ELSE IF st.role[ws] = "agent"
  THEN IF m.type \in {"output", "status", "error"}
       THEN broadcastToClients(st, Forwarded(m, ws, n), failed)
       ELSE st
  ELSE st

\* (mutant: a frame that does not parse closes the connection)
onInvalidJson_Close(st, ws) == wsClose(sendError(st, ws, "INVALID_JSON"), ws, CLOSE_AUTH)

\* catch of JSON.parse: sendError(ws, 'INVALID_JSON', ...); return
onInvalidJson(st, ws) == sendError(st, ws, "INVALID_JSON")

\* ws.on('message')
onMessage(st, ws, m, n, failed, agentFails) ==
  IF m.type = "badjson" THEN onInvalidJson(st, ws)
  ELSE IF m.type = "auth" THEN onAuth(st, ws, m, failed)
  ELSE IF ~st.authenticated[ws]
  THEN wsClose(sendError(st, ws, "NOT_AUTHENTICATED"), ws, CLOSE_AUTH)
  ELSE route(st, ws, m, n, failed, agentFails)

\* GET /health
health(st) == [status |-> "ok", agent |-> hasAgent(st), clients |-> getClientCount(st)]

(***************************************************************************)
(* Actions of the Relay                                                    *)
(***************************************************************************)
Commit(st) ==
  /\ sock' = st.sock
  /\ rx' = st.rx
  /\ closeCode' = st.closeCode
  /\ authenticated' = st.authenticated
  /\ role' = st.role
  /\ agent' = st.agent
  /\ clients' = st.clients
  /\ outbox' = st.outbox
  /\ now' = st.now
  /\ sendFailed' = st.thrown

Step ==
  /\ steps < MaxSteps
  /\ steps' = steps + 1
  /\ UNCHANGED <<agentVars, delay, browserVars, formatterVars, ptyVars, otherVars>>

Referenced(ws) == (agent # NoAgent /\ agent.ws = ws) \/ ws \in DOMAIN clients

\* lastHeard after an event on ws: the time of the event if it registered ws or was
\* a pong of ws; 0 for a socket that is not registered afterwards
Heard(ws, heard) ==
  lastHeard' = [c \in Conns |->
     IF ~((agent' # NoAgent /\ agent'.ws = c) \/ c \in DOMAIN clients') THEN 0
     ELSE IF c = ws /\ heard THEN now'
     ELSE lastHeard[c]]

\* wss.on('connection'): a new socket, with fresh closure variables
Free(ws) == sock[ws] = "CLOSED" /\ ~Referenced(ws)

\* (socket objects are interchangeable: the new one takes the first free name)
Connect(ws) ==
  /\ Free(ws)
  /\ \A w \in Conns : Free(w) => ~Before(w, ws)
  /\ Step
  /\ UNCHANGED nsent
  /\ Commit([R EXCEPT !.sock[ws] = "OPEN", !.rx[ws] = TRUE, !.closeCode[ws] = 0,
                      !.authenticated[ws] = FALSE, !.role[ws] = "null",
                      !.outbox[ws] = <<>>])
  /\ validAuth' = [validAuth EXCEPT ![ws] = FALSE]
  /\ Heard(ws, FALSE)

\* ws.on('message'): the peer of ws sends m and the Relay handles it
Message(ws, m) ==
  /\ sock[ws] # "CLOSED"
  /\ rx[ws]
  /\ Step
  /\ nsent' = [nsent EXCEPT ![ws] = @ + 1]
  /\ \E failed \in SUBSET (DOMAIN clients), agentFails \in BOOLEAN :
        Commit(onMessage(R, ws, m, nsent[ws] + 1, failed, agentFails))
  /\ validAuth' = [validAuth EXCEPT ![ws] =
        @ \/ (m.type = "auth" /\ m.token = RELAY_TOKEN /\ m.role \in {"agent", "client"})]
  /\ Heard(ws, m.type = "auth" /\ ~tokenMismatch(m)
               /\ (m.role = "client" \/ (m.role = "agent" /\ registerAgent(R, ws).ok)))

\* ws.on('pong')
Pong(ws) ==
  /\ Step
  /\ sock[ws] = "OPEN"
  /\ Referenced(ws)
  /\ Commit(updatePong(R, ws))
  /\ UNCHANGED <<nsent, validAuth>>
  /\ Heard(ws, TRUE)

\* the peer starts the closing handshake, or the connection is lost: no
\* frame of the peer arrives any more, 'close' is emitted later
PeerClose(ws) ==
  /\ Step
  /\ sock[ws] # "CLOSED"
  /\ rx[ws]
  /\ Commit([R EXCEPT !.sock[ws] = "CLOSING", !.rx[ws] = FALSE])
  /\ UNCHANGED <<nsent, validAuth>>
  /\ Heard(ws, FALSE)

\* ws.on('error'): the socket fails; 'close' follows
SocketError(ws) ==
  /\ Step
  /\ sock[ws] # "CLOSED"
  /\ rx[ws]
  /\ \E failed \in SUBSET (DOMAIN clients) :
        Commit(removeConnection([R EXCEPT !.sock[ws] = "CLOSING", !.rx[ws] = FALSE], ws, failed))
  /\ UNCHANGED <<nsent, validAuth>>
  /\ Heard(ws, FALSE)

\* ws.on('close')
Close(ws) ==
  /\ Step
  /\ sock[ws] = "CLOSING"
  /\ \E failed \in SUBSET (DOMAIN clients) :
        Commit(removeConnection([R EXCEPT !.sock[ws] = "CLOSED", !.rx[ws] = FALSE,
                                             !.outbox[ws] = <<>>], ws, failed))
  /\ UNCHANGED <<nsent, validAuth>>
  /\ Heard(ws, FALSE)

\* setInterval(() => connectionManager.pingAll(), HEARTBEAT_INTERVAL)
Heartbeat ==
  /\ Step
  /\ Commit(pingAll([R EXCEPT !.now = now + HEARTBEAT_INTERVAL]))
  /\ UNCHANGED <<nsent, validAuth>>
  /\ Heard("w1", FALSE)

(***************************************************************************)
(* The Agent's state as one record (as R for the Relay).                   *)
(***************************************************************************)
A == [ws |-> agentWs, sessionManager |-> sessionManager, sessions |-> sessions,
      pty |-> pty, records |-> records, summaryFile |-> summaryFile,
      outputFile |-> outputFile, sessionProjectMap |-> sessionProjectMap,
      attempt |-> attempt, timer |-> timer, upSent |-> upSent,
      closedCalls |-> closedCalls, now |-> agentNow, nextId |-> nextId,
      halted |-> halted, platform |-> platform, uploads |-> uploads,
      uplinks |-> uplinks, timeouts |-> timeouts]

\* Map.set, Map.delete; a Map iterates in insertion order, which for the
\* session ids (handed out in increasing order) is the ascending order
MapSet(f, k, v) == [x \in DOMAIN f \cup {k} |-> IF x = k THEN v ELSE f[x]]
MapDelete(f, k) == [x \in DOMAIN f \ {k} |-> f[x]]

RECURSIVE Keys(_)
Keys(S) ==
  IF S = {} THEN <<>>
  ELSE LET m == CHOOSE x \in S : \A y \in S : x <= y
       IN <<m>> \o Keys(S \ {m})

\* frames the Agent writes to the uplink (n: the number of the PTY chunk an
\* output frame carries, 0 otherwise; sessionId 0 is undefined)
AuthMessage == [type |-> "auth", sessionId |-> 0, n |-> 0,
                payload |-> [token |-> RELAY_TOKEN, role |-> "agent"]]
OutputMessage(sessionId, n, data) ==
  [type |-> "output", sessionId |-> sessionId, n |-> n,
   payload |-> [data |-> data, sessionId |-> sessionId]]
StatusMessage(status, data, sessionId) ==
  [type |-> "status", sessionId |-> sessionId, n |-> 0,
   payload |-> [status |-> status, data |-> data, sessionId |-> sessionId]]
ErrorMessage(code, sessionId) ==
  [type |-> "error", sessionId |-> sessionId, n |-> 0, payload |-> [code |-> code]]

\* (mutant: the frame is written whatever the socket's state)
sendMessage_Always(st, f) == [st EXCEPT !.upSent = Append(@, f)]

sendMessage(st, f) ==
  IF st.ws = "OPEN" THEN [st EXCEPT !.upSent = Append(@, f)] ELSE st

sendStatus(st, status, data, sessionId) ==
  sendMessage(st, StatusMessage(status, data, sessionId))

agentSendError(st, code, sessionId) == sendMessage(st, ErrorMessage(code, sessionId))

(***************************************************************************)
(* HistoryManager                                                          *)
(***************************************************************************)
PREVIEW_CHARS == 500

RECURSIVE Content(_)
\* the bytes of a .log file: its chunks one after the other
Content(chunks) ==
  IF chunks = <<>> THEN <<>> ELSE Head(chunks).data \o Content(Tail(chunks))

\* content.slice(-500)
Preview(content) ==
  IF Len(content) <= PREVIEW_CHARS THEN content
  ELSE SubSeq(content, Len(content) - PREVIEW_CHARS + 1, Len(content))

\* endTime -1: undefined
writeSummary(st, record) ==
  LET preview == IF record.sessionId \in DOMAIN st.outputFile
                 THEN Preview(Content(st.outputFile[record.sessionId]))
                 ELSE <<>>
  IN [st EXCEPT !.summaryFile =
        MapSet(@, record.sessionId,
               [sessionId |-> record.sessionId, projectId |-> record.projectId,
                startTime |-> record.startTime, endTime |-> record.endTime,
                preview |-> preview])]

historyStartSession(st, sessionId, projectId) ==
  LET record == [sessionId |-> sessionId, projectId |-> projectId,
                 startTime |-> st.now, endTime |-> -1]
      s1 == [st EXCEPT !.records = MapSet(@, sessionId, record)]
      s2 == writeSummary(s1, record)
  IN [s2 EXCEPT !.outputFile = MapSet(@, sessionId, <<>>)]

appendOutput(st, sessionId, n, data) ==
  IF sessionId \notin DOMAIN st.records THEN st
  ELSE [st EXCEPT !.outputFile[sessionId] = Append(@, [n |-> n, data |-> data])]

historyEndSession(st, sessionId) ==
  IF sessionId \notin DOMAIN st.records THEN st
  ELSE LET record == [st.records[sessionId] EXCEPT !.endTime = st.now]
           s1 == writeSummary(st, record)
       IN [s1 EXCEPT !.records = MapDelete(@, sessionId)]

\* readdirSync(projectDir).filter(f => f.endsWith('.summary.json')): the
\* sessions with a summary in the project's directory
getSessionHistory(st, projectId) ==
  {sid \in DOMAIN st.summaryFile : st.summaryFile[sid].projectId = projectId}

\* previousContext.length > 0
hasPreviousContext(st, projectId) == getSessionHistory(st, projectId) # {}

sendOutput(st, sessionId, n, data) ==
  sendMessage(appendOutput(st, sessionId, n, data), OutputMessage(sessionId, n, data))

(***************************************************************************)
(* SessionManager                                                          *)
(***************************************************************************)
RECURSIVE split(_)
\* data.split('\n')
split(data) ==
  IF \A i \in DOMAIN data : data[i] # "\n" THEN <<data>>
  ELSE LET i == CHOOSE k \in DOMAIN data :
                   data[k] = "\n" /\ \A j \in 1..(k - 1) : data[j] # "\n"
       IN <<SubSeq(data, 1, i - 1)>> \o split(SubSeq(data, i + 1, Len(data)))

RECURSIVE pushLines(_, _)
\* for (const line of lines) if (line) { buffer.push(line); if (length > MAX) shift() }
pushLines(buffer, lines) ==
  IF lines = <<>> THEN buffer
  ELSE LET line == Head(lines)
           b1 == IF line # <<>> THEN Append(buffer, line) ELSE buffer
           b2 == IF Len(b1) > BUFFER_MAX_LINES THEN Tail(b1) ELSE b1
       IN pushLines(b2, Tail(lines))

\* the callback (sessionId) => sendStatus('session_closed', { sessionId }, sessionId)
onSessionClosed(st, sessionId) ==
  sendStatus([st EXCEPT !.closedCalls[sessionId] = @ + 1],
             "session_closed", [sessionId |-> sessionId], sessionId)

\* returns the new sessionId and the state
startSession(st, projectId) ==
  LET sessionId == st.nextId
  IN [sessionId |-> sessionId,
      st |-> [st EXCEPT
                !.nextId = @ + 1,
                !.pty = MapSet(@, sessionId, "running"),
                !.closedCalls = MapSet(@, sessionId, 0),
                !.sessions = MapSet(@, sessionId,
                    [projectId |-> projectId, status |-> "active",
                     buffer |-> <<>>, lastActivity |-> st.now])]]

\* ptyProcess.onData
onData(st, sessionId, n, data) ==
  LET s1 == IF sessionId \in DOMAIN st.sessions
            THEN [st EXCEPT !.sessions[sessionId] =
                    [@ EXCEPT !.lastActivity = st.now, !.status = "active",
                              !.buffer = pushLines(@, split(data))]]
            ELSE st
  IN sendOutput(s1, sessionId, n, data)

\* (mutant: the session stays in the table)
onExit_Keep(st, sessionId) ==
  onSessionClosed([st EXCEPT !.pty[sessionId] = "exited"], sessionId)

\* ptyProcess.onExit
onExit(st, sessionId) ==
  onSessionClosed([st EXCEPT !.pty[sessionId] = "exited",
                             !.sessions = MapDelete(@, sessionId)], sessionId)

\* (mutant: the session is left as it was)
sendInput_NoTouch(st, sessionId) ==
  [ok |-> sessionId \in DOMAIN st.sessions, st |-> st]

sendInput(st, sessionId) ==
  IF sessionId \notin DOMAIN st.sessions THEN [ok |-> FALSE, st |-> st]
  ELSE [ok |-> TRUE,
        st |-> [st EXCEPT !.sessions[sessionId] =
                  [@ EXCEPT !.lastActivity = st.now, !.status = "active"]]]

closeSession(st, sessionId) ==
  IF sessionId \notin DOMAIN st.sessions THEN [ok |-> FALSE, st |-> st]
  ELSE [ok |-> TRUE,
        st |-> onSessionClosed([st EXCEPT !.pty[sessionId] = "killed",
                                          !.sessions = MapDelete(@, sessionId)],
                               sessionId)]

listSessions(st) ==
  LET ids == Keys(DOMAIN st.sessions)
  IN [i \in DOMAIN ids |->
        [sessionId |-> ids[i], projectId |-> st.sessions[ids[i]].projectId,
         status |-> st.sessions[ids[i]].status,
         lastActivity |-> st.sessions[ids[i]].lastActivity]]

\* (mutant: a session is reaped as soon as it is 30 minutes old)
isIdle_AtTimeout(st, sessionId) ==
  st.now - st.sessions[sessionId].lastActivity >= IDLE_TIMEOUT

\* now - session.lastActivity > IDLE_TIMEOUT
isIdle(st, sessionId) ==
  st.now - st.sessions[sessionId].lastActivity > IDLE_TIMEOUT

RECURSIVE closeEach(_, _)
\* for (const sessionId of ids) this.closeSession(sessionId)
closeEach(st, ids) ==
  IF ids = <<>> THEN st
  ELSE closeEach(closeSession(st, Head(ids)).st, Tail(ids))

RECURSIVE closeIdle(_, _)
closeIdle(st, ids) ==
  IF ids = <<>> THEN st
  ELSE closeIdle(IF Head(ids) \in DOMAIN st.sessions /\ isIdle(st, Head(ids))
                 THEN closeSession(st, Head(ids)).st ELSE st,
                 Tail(ids))

checkIdleSessions(st) == closeIdle(st, Keys(DOMAIN st.sessions))

closeAllSessions(st) == closeEach(st, Keys(DOMAIN st.sessions))

\* clearInterval(idleCheckTimer); closeAllSessions()
\* (the only caller exits the process right after: no timer fires any more)
destroy(st) == closeAllSessions(st)

(***************************************************************************)
(* pc-agent index.ts                                                       *)
(***************************************************************************)
\* commands the Relay forwards (sessionId 0: none given)
\* hasInput: command.input is defined; fileName: a sequence of characters, empty
\* if absent; fileContent: "" if absent
FullCommand(command, projectId, sessionId, hasInput, fileName, fileContent) ==
  [type |-> "command", sessionId |-> sessionId, projectId |-> projectId,
   command |-> command, hasInput |-> hasInput, fileName |-> fileName,
   fileContent |-> fileContent]
Command(command, projectId, sessionId) ==
  FullCommand(command, projectId, sessionId, TRUE, <<>>, "")
StatusConnected == [type |-> "status", status |-> "connected", role |-> "agent"]
StatusOther == [type |-> "status", status |-> "disconnected", role |-> "-"]
ErrorAgentExists == [type |-> "error", code |-> "AGENT_EXISTS"]
ErrorOther == [type |-> "error", code |-> "AUTH_FAILED"]

\* (mutant: the sessions of the project are not looked up)
existingSessions_None(st, projectId) == <<>>

\* sessionManager.listSessions().filter(s => s.projectId === project.id)
existingSessions(st, projectId) ==
  SelectSeq(listSessions(st), LAMBDA s : s.projectId = projectId)

RECURSIVE closeExisting(_, _)
closeExisting(st, existing) ==
  IF existing = <<>> THEN st
  ELSE LET sessionId == Head(existing).sessionId
           s1 == historyEndSession(st, sessionId)
           s2 == [s1 EXCEPT !.sessionProjectMap = MapDelete(@, sessionId)]
       IN closeExisting(closeSession(s2, sessionId).st, Tail(existing))

\* case 'start_session'
start_session(st, c) ==
  IF ~st.sessionManager THEN agentSendError(st, "NO_SESSION_MANAGER", 0)
  ELSE IF c.projectId # "" /\ c.projectId # QUICK_SESSION_PROJECT_ID
          /\ c.projectId \notin projects
  THEN agentSendError(st, "PROJECT_NOT_FOUND", 0)
  ELSE LET id == IF c.projectId = "" THEN QUICK_SESSION_PROJECT_ID ELSE c.projectId
           s1 == closeExisting(st, existingSessions(st, id))
           ctx == hasPreviousContext(s1, id)
           r == startSession(s1, id)
           s2 == [r.st EXCEPT !.sessionProjectMap = MapSet(@, r.sessionId, id)]
           s3 == historyStartSession(s2, r.sessionId, id)
       IN sendStatus(s3, "session_started",
                     [sessionId |-> r.sessionId, projectId |-> id,
                      isQuickSession |-> (id = QUICK_SESSION_PROJECT_ID),
                      hasPreviousContext |-> ctx], r.sessionId)

\* case 'list_sessions'
list_sessions(st) ==
  IF ~st.sessionManager THEN agentSendError(st, "NO_SESSION_MANAGER", 0)
  ELSE sendStatus(st, "sessions_list", [sessions |-> listSessions(st)], 0)

\* case 'send_input'
send_input(st, c) ==
  IF c.sessionId = 0 THEN agentSendError(st, "MISSING_SESSION_ID", 0)
  ELSE IF ~c.hasInput THEN agentSendError(st, "MISSING_INPUT", 0)
  ELSE IF ~st.sessionManager THEN agentSendError(st, "NO_SESSION_MANAGER", 0)
  ELSE LET r == sendInput(st, c.sessionId)
       IN IF r.ok THEN r.st ELSE agentSendError(r.st, "SESSION_NOT_FOUND", c.sessionId)

\* (mutant: the history record is not ended)
close_session_NoEnd(st, c) ==
  IF c.sessionId = 0 THEN agentSendError(st, "MISSING_SESSION_ID", 0)
  ELSE IF ~st.sessionManager THEN agentSendError(st, "NO_SESSION_MANAGER", 0)
  ELSE LET r == closeSession(st, c.sessionId)
       IN IF r.ok THEN r.st ELSE agentSendError(r.st, "SESSION_NOT_FOUND", c.sessionId)

\* case 'close_session'
close_session(st, c) ==
  IF c.sessionId = 0 THEN agentSendError(st, "MISSING_SESSION_ID", 0)
  ELSE IF ~st.sessionManager THEN agentSendError(st, "NO_SESSION_MANAGER", 0)
  ELSE LET s1 == historyEndSession(st, c.sessionId)
           s2 == [s1 EXCEPT !.sessionProjectMap = MapDelete(@, c.sessionId)]
           r == closeSession(s2, c.sessionId)
       IN IF r.ok THEN r.st ELSE agentSendError(r.st, "SESSION_NOT_FOUND", c.sessionId)

\* case 'list_projects'
list_projects(st) == sendStatus(st, "projects_list", [projects |-> projects], 0)

\* the summaries of a project, newest file name first, at most limit of them
\* (file names start with the start time; the session ids grow with it)
RECURSIVE summariesOf(_, _, _)
summariesOf(st, ids, limit) ==
  IF ids = {} \/ limit = 0 THEN <<>>
  ELSE LET m == CHOOSE x \in ids : \A y \in ids : x >= y
       IN <<st.summaryFile[m]>> \o summariesOf(st, ids \ {m}, limit - 1)

\* cases 'get_session_history', 'get_context_summary', 'get_last_session_output'
get_history(st, c) ==
  IF c.projectId = "" THEN agentSendError(st, "MISSING_PROJECT_ID", 0)
  ELSE LET ids == getSessionHistory(st, c.projectId)
       IN CASE c.command = "get_session_history" ->
                 sendStatus(st, "session_history",
                            [projectId |-> c.projectId,
                             history |-> summariesOf(st, ids, 10)], 0)
            [] c.command = "get_context_summary" ->
                 sendStatus(st, "context_summary",
                            [projectId |-> c.projectId,
                             context |-> summariesOf(st, ids, 3)], 0)
            [] OTHER ->
                 sendStatus(st, "last_session_output",
                            [projectId |-> c.projectId,
                             output |-> IF ids = {} THEN <<>>
                                        ELSE Content(st.outputFile[
                                               CHOOSE x \in ids : \A y \in ids : x >= y])],
                            0)

\* SessionManager.keepalive: update lastActivity only, no PTY write
keepalive(st, sessionId) ==
  IF sessionId \notin DOMAIN st.sessions THEN [ok |-> FALSE, st |-> st]
  ELSE [ok |-> TRUE, st |-> [st EXCEPT !.sessions[sessionId].lastActivity = st.now]]

\* (mutant: a keepalive that succeeded is acknowledged)
keepalive_command_Ack(st, c) ==
  IF c.sessionId = 0 THEN agentSendError(st, "MISSING_SESSION_ID", 0)
  ELSE IF ~st.sessionManager THEN agentSendError(st, "NO_SESSION_MANAGER", 0)
  ELSE LET r == keepalive(st, c.sessionId)
       IN IF r.ok THEN sendStatus(r.st, "keepalive", [sessionId |-> c.sessionId], c.sessionId)
          ELSE agentSendError(r.st, "SESSION_NOT_FOUND", c.sessionId)

\* case 'keepalive'
keepalive_command(st, c) ==
  IF c.sessionId = 0 THEN agentSendError(st, "MISSING_SESSION_ID", 0)
  ELSE IF ~st.sessionManager THEN agentSendError(st, "NO_SESSION_MANAGER", 0)
  ELSE LET r == keepalive(st, c.sessionId)
       IN IF r.ok THEN r.st ELSE agentSendError(r.st, "SESSION_NOT_FOUND", c.sessionId)

\* ---- path of Node, on sequences of characters ----
Letters == {"a", "e", "t", "c", "p", "s", "w", "d"}
\* the characters the regular expression [^a-zA-Z0-9._-] does not match
SafeChars == Letters \cup {".", "_", "-"}

isPathSeparator(pf, ch) == ch = "/" \/ (pf = "win32" /\ ch = "\\")

\* win32.basename skips a drive prefix such as C:
driveLen(pf, path) ==
  IF pf = "win32" /\ Len(path) >= 2 /\ path[1] \in Letters /\ path[2] = ":" THEN 2 ELSE 0

\* path.basename(path): trailing separators are dropped, then what follows the last
\* separator is returned
basename(pf, path) ==
  LET from == driveLen(pf, path) + 1
      ends == {i \in from..Len(path) : ~isPathSeparator(pf, path[i])}
  IN IF ends = {} THEN <<>>
     ELSE LET end == CHOOSE i \in ends : \A j \in ends : j <= i
              seps == {i \in from..end : isPathSeparator(pf, path[i])}
              start == IF seps = {} THEN from
                       ELSE (CHOOSE i \in seps : \A j \in seps : j <= i) + 1
          IN SubSeq(path, start, end)

\* (mutant: the path components are not removed)
sanitizedName_NoBasename(pf, fileName) ==
  [i \in DOMAIN fileName |-> IF fileName[i] \in SafeChars THEN fileName[i] ELSE "_"]

\* path.basename(command.fileName).replace(/[^a-zA-Z0-9._-]/g, '_')
sanitizedName(pf, fileName) ==
  LET base == basename(pf, fileName)
  IN [i \in DOMAIN base |-> IF base[i] \in SafeChars THEN base[i] ELSE "_"]

\* session.workingDir: the path of the session's project, as its components
workingDir(st, sessionId) == <<st.sessions[sessionId].projectId>>

\* path.join(dir, name) for a name without separators: "" and "." give dir, ".."
\* its parent; the result as [dir, name], name empty if the result is dir itself
join(dir, name) ==
  IF name = <<>> \/ name = <<".">> THEN [dir |-> dir, name |-> <<>>]
  ELSE IF name = <<".", ".">> THEN [dir |-> SubSeq(dir, 1, Len(dir) - 1), name |-> <<>>]
  ELSE [dir |-> dir, name |-> name]

\* const filePath = path.join(path.join(session.workingDir, 'uploads'), sanitizedName)
filePath(st, c) ==
  join(Append(workingDir(st, c.sessionId), "uploads"), sanitizedName(st.platform, c.fileName))

\* case 'upload_file' (fs.writeFileSync throws EISDIR when the path is a directory,
\* as uploadsDir and the working directory are)
upload_file(st, c) ==
  IF c.sessionId = 0 THEN agentSendError(st, "MISSING_SESSION_ID", 0)
  ELSE IF c.fileName = <<>> \/ c.fileContent = "" THEN agentSendError(st, "MISSING_FILE_DATA", 0)
  ELSE IF ~st.sessionManager THEN agentSendError(st, "NO_SESSION_MANAGER", 0)
  ELSE IF c.sessionId \notin DOMAIN st.sessions
  THEN agentSendError(st, "SESSION_NOT_FOUND", c.sessionId)
  ELSE IF filePath(st, c).name = <<>> THEN agentSendError(st, "UPLOAD_FAILED", c.sessionId)
  ELSE sendStatus([st EXCEPT !.uploads = @ \cup {filePath(st, c)}], "file_uploaded",
                  [sessionId |-> c.sessionId,
                   fileName |-> sanitizedName(st.platform, c.fileName),
                   filePath |-> filePath(st, c)], c.sessionId)

handleCommand(st, c) ==
  CASE c.command = "list_projects" -> list_projects(st)
    [] c.command = "list_sessions" -> list_sessions(st)
    [] c.command = "start_session" -> start_session(st, c)
    [] c.command = "send_input" -> send_input(st, c)
    [] c.command = "close_session" -> close_session(st, c)
    [] c.command \in {"get_session_history", "get_context_summary",
                      "get_last_session_output"} -> get_history(st, c)
    [] c.command = "keepalive" -> keepalive_command(st, c)
    [] c.command = "upload_file" -> upload_file(st, c)
    [] OTHER -> agentSendError(st, "UNKNOWN_COMMAND", 0)

\* ReconnectManager
\* clearTimeout(this.timer)
clearTimer(st) ==
  IF st.timer THEN [st EXCEPT !.timer = FALSE, !.timeouts = @ - 1] ELSE st

reset(st) == [clearTimer(st) EXCEPT !.attempt = 0]
getNextDelay(st) == [st EXCEPT !.attempt = @ + 1]

\* DEFAULT_CONFIG; jitter is 0.1, kept as its inverse
initialDelay == 1000
maxDelay == 30000
multiplier == 2
jitterInverse == 10

\* Math.pow on doubles: the powers of two are exact up to 2^1023 and Infinity from
\* 2^1024 on. Every value from Saturated on stands for itself or anything larger,
\* Infinity included: initialDelay * Saturated is above maxDelay, so Math.min
\* returns the same for all of them.
InfinityAt == 1024
Saturated == 1024
RECURSIVE powFrom(_, _, _)
powFrom(acc, x, n) ==
  IF n = 0 THEN acc
  ELSE IF acc * x >= Saturated THEN Saturated
  ELSE powFrom(acc * x, x, n - 1)

pow(x, n) == IF n >= InfinityAt THEN Saturated ELSE powFrom(1, x, n)

min(a, b) == IF a <= b THEN a ELSE b
max(a, b) == IF a >= b THEN a ELSE b

\* const baseDelay = Math.min(initialDelay * Math.pow(multiplier, attempt), maxDelay)
baseDelay_NoCap(n) == initialDelay * pow(multiplier, n)
baseDelay(n) == min(initialDelay * pow(multiplier, n), maxDelay)

\* const jitterRange = baseDelay * jitter (every base delay is a multiple of ten,
\* and the double products 100 .. 3000 are exact)
jitterRange(n) == baseDelay(n) \div jitterInverse

\* the value getNextDelay returns at counter n when Math.random() gives k / RandSteps,
\* times RandSteps: Math.max(0, baseDelay + (random * jitterRange * 2 - jitterRange))
returnedDelay(n, k) ==
  max(0, RandSteps * baseDelay(n) + (k * jitterRange(n) * 2 - RandSteps * jitterRange(n)))

\* (mutant: no timer is set)
scheduleReconnect_NoTimer(st) == getNextDelay(clearTimer(st))

\* this.timer = setTimeout(...)
scheduleReconnect(st) ==
  [getNextDelay(clearTimer(st)) EXCEPT !.timer = TRUE, !.timeouts = @ + 1]


\* connect(): ws = new WebSocket(relayUrl)
connect(st) == [st EXCEPT !.ws = "CONNECTING", !.uplinks = @ + 1]

\* the callback of setTimeout: this.timer = null; callback()
onTimeout(st) == connect([st EXCEPT !.timer = FALSE, !.timeouts = @ - 1])

\* (mutant: the counter is reset as soon as the socket opens)
onOpen_Reset(st) ==
  [reset(sendMessage([st EXCEPT !.ws = "OPEN"], AuthMessage)) EXCEPT !.sessionManager = TRUE]

\* ws.on('open')
onOpen(st) ==
  [sendMessage([st EXCEPT !.ws = "OPEN"], AuthMessage) EXCEPT !.sessionManager = TRUE]

\* (mutant: the close handler tears the sessions down)
onClose_Destroy(st) ==
  scheduleReconnect(destroy([st EXCEPT !.ws = "null", !.uplinks = @ - 1]))

\* ws.on('close')
onClose(st) == scheduleReconnect([st EXCEPT !.ws = "null", !.uplinks = @ - 1])

\* (mutant: the counter is advanced once)
onAgentExists_Once(st) == getNextDelay(st)

\* for (let i = 0; i < 5; i++) reconnectManager.getNextDelay()
onAgentExists(st) ==
  getNextDelay(getNextDelay(getNextDelay(getNextDelay(getNextDelay(st)))))

\* ws.on('message')
onAgentMessage(st, m) ==
  IF m.type = "status"
  THEN IF m.status = "connected" /\ m.role = "agent" THEN reset(st) ELSE st
  ELSE IF m.type = "error"
  THEN IF m.code = "AGENT_EXISTS" THEN onAgentExists(st) ELSE st
  ELSE IF m.type = "command" THEN handleCommand(st, m)
  ELSE st

\* process.on('SIGINT' / 'SIGTERM'); ws.close() starts the closing handshake
shutdown(st) ==
  LET s1 == IF st.sessionManager THEN destroy(st) ELSE st
      s2 == IF s1.ws # "null" THEN [s1 EXCEPT !.ws = "CLOSING"] ELSE s1
  IN [s2 EXCEPT !.halted = TRUE]

\* the clock advances in steps of half a scan interval; the idle timer, set when
\* the SessionManager is constructed at time 0, fires every IDLE_CHECK_INTERVAL
TickLen == IDLE_CHECK_INTERVAL \div 2

tick(st) ==
  LET s1 == [st EXCEPT !.now = @ + TickLen]
  IN IF s1.now % IDLE_CHECK_INTERVAL = 0 THEN checkIdleSessions(s1) ELSE s1

RECURSIVE elapse(_, _)
elapse(st, k) == IF k = 0 THEN st ELSE elapse(tick(st), k - 1)

\* the state at load on platform pf with the counter of the ReconnectManager at n
\* (0 at load)
AgentInitOn(n, pf) ==
  /\ agentWs = "CONNECTING"
  /\ sessionManager = FALSE
  /\ sessions = <<>>
  /\ pty = <<>>
  /\ records = <<>>
  /\ summaryFile = <<>>
  /\ outputFile = <<>>
  /\ sessionProjectMap = <<>>
  /\ attempt = n
  /\ timer = FALSE
  /\ upSent = <<>>
  /\ closedCalls = <<>>
  /\ agentNow = 0
  /\ nextId = 1
  /\ produced = 0
  /\ offline = {}
  /\ halted = FALSE
  /\ rejectedAt = -1
  /\ platform = pf
  /\ uploads = {}
  /\ uplinks = 1
  /\ timeouts = 0
  /\ agentSteps = 0

AgentInitAt(n) == AgentInitOn(n, "posix")

AgentInit == AgentInitAt(0)

RelayInit ==
  /\ sock = [c \in Conns |-> "CLOSED"]
  /\ rx = [c \in Conns |-> FALSE]
  /\ closeCode = [c \in Conns |-> 0]
  /\ authenticated = [c \in Conns |-> FALSE]
  /\ role = [c \in Conns |-> "null"]
  /\ agent = NoAgent
  /\ clients = <<>>
  /\ outbox = [c \in Conns |-> <<>>]
  /\ now = 0
  /\ sendFailed = {}
  /\ nsent = [c \in Conns |-> 0]
  /\ steps = 0
  /\ validAuth = [c \in Conns |-> FALSE]
  /\ lastHeard = [c \in Conns |-> 0]

\* no message has reached the browser Client, whose storage is empty
NoMessage == [type |-> "none"]

BrowserIdle ==
  /\ clientSessions = <<>>
  /\ browserNow = 0
  /\ inbox = NoMessage
  /\ handled = 0

\* new OutputFormatter(outputCallback)
FormatterInit ==
  /\ bufferContent = <<>>
  /\ bufferTimer = FALSE
  /\ flushPending = FALSE
  /\ timerDue = -1
  /\ formatterNow = 0
  /\ lastAdded = -1
  /\ sentMessages = <<>>
  /\ addedLines = 0

\* no timer of the SessionManager is set and nothing was written to a PTY
PtyIdle ==
  /\ pending = <<>>
  /\ written = <<>>

(***************************************************************************)
(* The Agent's MemoryManager.  A Memory holds references to three          *)
(* containers (preferences, projectFacts, recentContext); memoryHeap gives *)
(* the content of every container by its address, so that two Memory       *)
(* objects that refer to the same container are told apart from two that   *)
(* hold equal copies.  Time stamps (lastWorkedOn, timestamp) and the       *)
(* keywords of a context entry are left out; a write to the file succeeds. *)
(***************************************************************************)
MAX_RECENT_CONTEXT == 50

MAX_RECENT_FILES == 20

MAX_COMMON_COMMANDS == 10

\* an object without properties, an array without elements
NoEntries == <<>>

\* the module constant DEFAULT_MEMORY: its containers live at addresses 1, 2 and 3
DEFAULT_MEMORY == [version |-> 1, preferences |-> 1, projectFacts |-> 2, recentContext |-> 3]

\* memory.json does not exist; when it exists, memoryFile is <<its content>>
NoFile == <<>>

\* facts.lastTopic is undefined; the value undefined of setPreference
undefined == "undefined"

\* the text of JSON.stringify(this.memory), as the value it denotes
stringify(st) ==
  [version |-> st.memory.version,
   preferences |-> st.heap[st.memory.preferences],
   projectFacts |-> st.heap[st.memory.projectFacts],
   recentContext |-> st.heap[st.memory.recentContext]]

\* JSON.parse and migrate of a well-formed text: three new containers
parse(st, json) ==
  [st EXCEPT !.heap = @ \o <<json.preferences, json.projectFacts, json.recentContext>>,
             !.memory = [version |-> json.version, preferences |-> Len(st.heap) + 1,
                         projectFacts |-> Len(st.heap) + 2,
                         recentContext |-> Len(st.heap) + 3]]

\* load(): the file's content if the file exists, else { ...DEFAULT_MEMORY }, a
\* new object whose three properties are the containers of DEFAULT_MEMORY
load(st) ==
  IF st.file # NoFile THEN parse(st, st.file[1]) ELSE [st EXCEPT !.memory = DEFAULT_MEMORY]

save(st) == [st EXCEPT !.dirty = TRUE, !.saveDebounceTimer = TRUE]

saveImmediate(st) ==
  IF ~st.dirty THEN st ELSE [st EXCEPT !.file = <<stringify(st)>>, !.dirty = FALSE]

\* the entry a project gets at its first use
NewFacts == [recentFiles |-> <<>>, commonCommands |-> <<>>, totalSessions |-> 0,
             lastTopic |-> undefined]

getProjectFacts(st, projectId) ==
  LET a == st.memory.projectFacts
  IN IF projectId \in DOMAIN st.heap[a] THEN st
     ELSE [st EXCEPT !.heap[a] = (projectId :> NewFacts) @@ @]

\* s.slice(0, n)
slice(s, n) == SubSeq(s, 1, IF Len(s) < n THEN Len(s) ELSE n)

\* the array without every element equal to x (splice at indexOf: the arrays here
\* hold an element at most once)
without(s, x) == SelectSeq(s, LAMBDA y : y # x)

addContextEntry(st, entry) ==
  LET a == st.memory.recentContext
      unshifted == <<entry>> \o st.heap[a]
  IN IF Len(unshifted) > MAX_RECENT_CONTEXT
     THEN [st EXCEPT !.heap = [@ EXCEPT ![a] = unshifted] \o <<slice(unshifted, MAX_RECENT_CONTEXT)>>,
                     !.memory.recentContext = Len(st.heap) + 1]
     ELSE [st EXCEPT !.heap[a] = unshifted]

recordActivity(st, projectId, activity) ==
  LET s1 == getProjectFacts(st, projectId)
      a == s1.memory.projectFacts
      s2 == [s1 EXCEPT !.heap[a][projectId].totalSessions = @ + 1]
  IN save(addContextEntry(s2, [project |-> projectId, summary |-> activity]))

recordFile(st, projectId, path) ==
  LET s1 == getProjectFacts(st, projectId)
      a == s1.memory.projectFacts
  IN save([s1 EXCEPT !.heap[a][projectId].recentFiles =
                        slice(<<path>> \o without(@, path), MAX_RECENT_FILES)])

recordCommand(st, projectId, command) ==
  LET s1 == getProjectFacts(st, projectId)
      a == s1.memory.projectFacts
  IN save([s1 EXCEPT !.heap[a][projectId].commonCommands =
                        slice(<<command>> \o without(@, command), MAX_COMMON_COMMANDS)])

recordTopic(st, projectId, topic) ==
  LET s1 == getProjectFacts(st, projectId)
      a == s1.memory.projectFacts
  IN save([s1 EXCEPT !.heap[a][projectId].lastTopic = topic])

setPreference(st, key, value) ==
  LET a == st.memory.preferences
      old == st.heap[a]
  IN save([st EXCEPT !.heap[a] =
                        IF value = undefined
                        THEN [k \in DOMAIN old \ {key} |-> old[k]]
                        ELSE (key :> value) @@ old])

clear(st) == saveImmediate([st EXCEPT !.memory = DEFAULT_MEMORY])

\* the callback of the debounce timer
onSaveTimer(st) == saveImmediate([st EXCEPT !.saveDebounceTimer = FALSE])

\* new MemoryManager() in a fresh process, with memory.json as given
MemoryInitAt(file) ==
  LET st == load([heap |-> <<NoEntries, NoEntries, NoEntries>>, memory |-> DEFAULT_MEMORY,
                  file |-> file, dirty |-> FALSE, saveDebounceTimer |-> FALSE])
  IN /\ memoryHeap = st.heap
     /\ memory = st.memory
     /\ memoryFile = st.file
     /\ dirty = st.dirty
     /\ saveDebounceTimer = st.saveDebounceTimer
     /\ memorySteps = 0

MemoryInit == MemoryInitAt(NoFile)

(***************************************************************************)
(* The Agent's TaskWatcher.                                                *)
(***************************************************************************)
\* null, where <<task>> is a task
null == <<>>

\* no request or call yet; a call fills in the field of its kind of result: the
\* HTTP status, the boolean, the task or tasks, the number
NoCall == [op |-> "new", taskId |-> "", code |-> 0, ok |-> FALSE, tasks |-> <<>>, count |-> 0]

\* the position of the task with this id in the Map, 0 if there is none
indexOfTask(tasks, taskId) ==
  IF \E i \in DOMAIN tasks : tasks[i].taskId = taskId
  THEN CHOOSE i \in DOMAIN tasks : tasks[i].taskId = taskId
  ELSE 0

\* Map.set: a known key keeps its place, a new one goes to the end
mapSet(tasks, task) ==
  LET i == indexOfTask(tasks, task.taskId)
  IN IF i = 0 THEN Append(tasks, task) ELSE [tasks EXCEPT ![i] = task]

\* app.post('/webhook/task'): result is the HTTP status of the response
webhookTask(st, payload) ==
  IF payload.taskId = "" \/ payload.title = ""
  THEN [st |-> st, result |-> 400]
  ELSE LET task == [taskId |-> payload.taskId, title |-> payload.title,
                    status |-> "pending_approval", sessionId |-> undefined]
       IN [st |-> [st EXCEPT !.pendingTasks = mapSet(@, task),
                             !.received = Append(@, task)],
           result |-> 200]

getPendingTasks(st) ==
  SelectSeq(st.pendingTasks, LAMBDA t : t.status = "pending_approval")

approveTask(st, taskId) ==
  LET i == indexOfTask(st.pendingTasks, taskId)
  IN IF i # 0 /\ st.pendingTasks[i].status = "pending_approval"
     THEN LET next == [st EXCEPT !.pendingTasks[i].status = "approved"]
          IN [st |-> next, result |-> <<next.pendingTasks[i]>>]
     ELSE [st |-> st, result |-> null]

rejectTask(st, taskId) ==
  LET i == indexOfTask(st.pendingTasks, taskId)
  IN IF i # 0 /\ st.pendingTasks[i].status = "pending_approval"
     THEN [st |-> [st EXCEPT !.pendingTasks[i].status = "rejected"], result |-> TRUE]
     ELSE [st |-> st, result |-> FALSE]

updateTaskStatus(st, taskId, status, sessionId) ==
  LET i == indexOfTask(st.pendingTasks, taskId)
  IN IF i # 0
     THEN [st EXCEPT !.pendingTasks[i].status = status,
                     !.pendingTasks[i].sessionId = IF sessionId # undefined THEN sessionId ELSE @]
     ELSE st

clearCompleted(st) ==
  LET kept == SelectSeq(st.pendingTasks, LAMBDA t : ~(t.status = "completed" \/ t.status = "rejected"))
  IN [st |-> [st EXCEPT !.pendingTasks = kept],
      result |-> Len(st.pendingTasks) - Len(kept)]

\* new TaskWatcher(port, onTaskReceived)
TaskInit ==
  /\ pendingTasks = <<>>
  /\ taskReceived = <<>>
  /\ taskCall = NoCall
  /\ taskHistory = {}
  /\ taskSteps = 0

\* new RelayClient(relayUrl, token)
RelayClientInit ==
  /\ clientSockets = <<>>
  /\ clientWs = 0
  /\ clientState = "disconnected"
  /\ reconnectAttempt = 0
  /\ reconnectTimer = FALSE
  /\ pingInterval = FALSE
  /\ shouldReconnect = TRUE
  /\ clientTimeouts = 0
  /\ clientHandled = 0
  /\ clientSteps = 0

OtherInit == RelayClientInit /\ MemoryInit /\ TaskInit

Rest == delay = -1 /\ BrowserIdle /\ FormatterInit /\ PtyIdle /\ OtherInit

Init == RelayInit /\ AgentInit /\ Rest

Next ==
  \/ \E ws \in Conns : Connect(ws)
  \/ \E ws \in Conns, m \in PeerFrames : Message(ws, m)
  \/ \E ws \in Conns : Pong(ws)
  \/ \E ws \in Conns : PeerClose(ws)
  \/ \E ws \in Conns : SocketError(ws)
  \/ \E ws \in Conns : Close(ws)
  \/ Heartbeat

Spec == Init /\ [][Next]_vars

(***************************************************************************)
(* Actions of the Agent                                                    *)
(***************************************************************************)
AgentCommit(st) ==
  /\ agentWs' = st.ws
  /\ sessionManager' = st.sessionManager
  /\ sessions' = st.sessions
  /\ pty' = st.pty
  /\ records' = st.records
  /\ summaryFile' = st.summaryFile
  /\ outputFile' = st.outputFile
  /\ sessionProjectMap' = st.sessionProjectMap
  /\ attempt' = st.attempt
  /\ timer' = st.timer
  /\ upSent' = st.upSent
  /\ closedCalls' = st.closedCalls
  /\ agentNow' = st.now
  /\ nextId' = st.nextId
  /\ halted' = st.halted
  /\ platform' = st.platform
  /\ uploads' = st.uploads
  /\ uplinks' = st.uplinks
  /\ timeouts' = st.timeouts

\* an event of the Agent is handled
AgentEvent ==
  /\ ~halted
  /\ agentSteps < MaxAgentSteps
  /\ agentSteps' = agentSteps + 1
  /\ UNCHANGED <<relayVars, delay, browserVars, formatterVars, otherVars>>

\* (the writes to the PTYs and their timers are followed in SpecPty)
AgentStep == AgentEvent /\ UNCHANGED ptyVars

\* the session ids a command can name: those handed out so far
SessionIds == 1..(nextId - 1)

\* the projectId of a start_session: absent, the sentinel, a configured project
ProjectIds == projects \cup {"", QUICK_SESSION_PROJECT_ID}

\* the frames the Relay can deliver to the Agent
RelayMessages ==
  {StatusConnected, StatusOther, ErrorAgentExists, ErrorOther,
   Command("list_sessions", "", 0)}
    \cup {Command("start_session", p, 0) :
            p \in ProjectIds}
    \cup {Command(c, "", sid) : c \in {"send_input", "close_session"}, sid \in SessionIds}

\* the PTY chunks
Chunks == {<<"\n", "y", "\n">>}

\* the runs of clock ticks taken as one step: one tick, and IDLE_TIMEOUT of quiet
TickRuns == {1, IDLE_TIMEOUT \div TickLen}

UplinkOpen ==
  /\ AgentStep
  /\ agentWs = "CONNECTING"
  /\ AgentCommit(onOpen(A))
  /\ UNCHANGED <<produced, offline, rejectedAt>>

\* the socket closes (a failed connection attempt included)
UplinkClose ==
  /\ AgentStep
  /\ agentWs \in {"CONNECTING", "OPEN"}
  /\ AgentCommit(onClose(A))
  /\ rejectedAt' = -1
  /\ UNCHANGED <<produced, offline>>

\* the timer of scheduleReconnect fires: this.timer = null; connect()
ReconnectTimer ==
  /\ AgentStep
  /\ timer
  /\ AgentCommit(onTimeout(A))
  /\ UNCHANGED <<produced, offline, rejectedAt>>

\* (a socket the Relay has answered with AGENT_EXISTS is closing at the Relay,
\* which writes nothing more to it)
Receive(m) ==
  /\ AgentStep
  /\ agentWs = "OPEN"
  /\ rejectedAt = -1
  /\ AgentCommit(onAgentMessage(A, m))
  /\ rejectedAt' = IF m = ErrorAgentExists THEN attempt ELSE -1
  /\ UNCHANGED <<produced, offline>>

\* a running PTY writes a chunk
PtyData(sessionId, data) ==
  /\ AgentStep
  /\ sessionId \in DOMAIN pty
  /\ pty[sessionId] = "running"
  /\ produced' = produced + 1
  /\ offline' = IF agentWs = "OPEN" THEN offline
                ELSE offline \cup {[sessionId |-> sessionId, n |-> produced + 1]}
  /\ AgentCommit(onData(A, sessionId, produced + 1, data))
  /\ UNCHANGED rejectedAt

\* a PTY exits, on its own or after kill()
PtyExit(sessionId) ==
  /\ AgentStep
  /\ sessionId \in DOMAIN pty
  /\ pty[sessionId] \in {"running", "killed"}
  /\ AgentCommit(onExit(A, sessionId))
  /\ UNCHANGED <<produced, offline, rejectedAt>>

\* time passes; the idle timer runs once the SessionManager exists
Tick(k) ==
  /\ AgentStep
  /\ sessionManager
  /\ AgentCommit(elapse(A, k))
  /\ UNCHANGED <<produced, offline, rejectedAt>>

Shutdown ==
  /\ AgentStep
  /\ AgentCommit(shutdown(A))
  /\ UNCHANGED <<produced, offline, rejectedAt>>

NextAgent ==
  \/ UplinkOpen
  \/ UplinkClose
  \/ ReconnectTimer
  \/ \E m \in RelayMessages : Receive(m)
  \/ \E sessionId \in 1..MaxAgentSteps, data \in Chunks : PtyData(sessionId, data)
  \/ \E sessionId \in 1..MaxAgentSteps : PtyExit(sessionId)
  \/ \E k \in TickRuns : Tick(k)
  \/ Shutdown

SpecAgent == Init /\ [][NextAgent]_vars

\* ---------------------------------------------------------------------------
\* ReconnectManager.getNextDelay applied at any value of the counter
\* ---------------------------------------------------------------------------
LargeAttempts == {InfinityAt - 1, InfinityAt, InfinityAt + 1}
Attempts == (0..MaxAttempt) \cup LargeAttempts
Random == 0..(RandSteps - 1)

InitDelay == RelayInit /\ Rest /\ \E n \in Attempts : AgentInitAt(n)

GetNextDelay(k) ==
  /\ attempt \in Attempts
  /\ delay' = returnedDelay(attempt, k)
  /\ attempt' = getNextDelay(A).attempt
  /\ UNCHANGED <<relayVars, agentWs, sessionManager, sessions, pty, records, summaryFile,
                 outputFile, sessionProjectMap, timer, upSent, closedCalls, agentNow,
                 nextId, produced, offline, halted, rejectedAt, platform, uploads,
                 uplinks, timeouts, agentSteps, browserVars, formatterVars, ptyVars, otherVars>>

NextDelay == \E k \in Random : GetNextDelay(k)

SpecDelay == InitDelay /\ [][NextDelay]_vars

\* ---------------------------------------------------------------------------
\* upload_file for any file name, on either platform
\* ---------------------------------------------------------------------------
Platforms == {"posix", "win32"}
NameChars == {"a", ".", "/", "\\", ":", " "}
ExampleName == <<".", ".", "/", ".", ".", "/", "e", "t", "c", "/", "p", "a", "s", "s", "w", "d">>
FileNames == UNION {[1..n -> NameChars] : n \in 1..MaxNameLen} \cup {ExampleName}

UploadCommand(sessionId, fileName) ==
  FullCommand("upload_file", "", sessionId, TRUE, fileName, "x")

InitUpload == RelayInit /\ Rest /\ \E pf \in Platforms : AgentInitOn(0, pf)

StartSession == \E p \in projects : Receive(Command("start_session", p, 0))

\* no upload was asked for yet: none succeeded and none was refused
Untried ==
  /\ uploads = {}
  /\ \A i \in 1..Len(upSent) : upSent[i].type # "error"

\* one upload is asked for per run
UploadFile(sessionId, fileName) ==
  /\ Untried
  /\ Receive(UploadCommand(sessionId, fileName))

NextUpload ==
  \/ UplinkOpen
  \/ StartSession
  \/ \E sessionId \in SessionIds, fileName \in FileNames : UploadFile(sessionId, fileName)

SpecUpload == InitUpload /\ [][NextUpload]_vars

\* ---------------------------------------------------------------------------
\* sessions kept alive by a Client while time passes
\* ---------------------------------------------------------------------------
\* a keepalive for a session that exists or for the next id, which names none
Keepalive(sessionId) == Receive(Command("keepalive", "", sessionId))

NextKeepalive ==
  \/ UplinkOpen
  \/ StartSession
  \/ \E sessionId \in 1..nextId : Keepalive(sessionId)
  \/ \E k \in TickRuns : Tick(k)

SpecKeepalive == Init /\ [][NextKeepalive]_vars

\* ---------------------------------------------------------------------------
\* the uplink's life, timers firing
\* ---------------------------------------------------------------------------
\* the timer of scheduleReconnect fires, however many events were handled before
TimerFires ==
  /\ ~halted
  /\ timer
  /\ AgentCommit(onTimeout(A))
  /\ UNCHANGED <<relayVars, delay, browserVars, formatterVars, ptyVars, otherVars, produced, offline,
                 rejectedAt, agentSteps>>

NextReconnect ==
  \/ UplinkOpen
  \/ UplinkClose
  \/ TimerFires
  \/ \E m \in {StatusConnected, ErrorAgentExists} : Receive(m)
  \/ Shutdown

\* a timer that is set fires unless the process exits first
SpecReconnect == Init /\ [][NextReconnect]_vars /\ WF_vars(TimerFires)

(***************************************************************************)
(* The browser Client: RelayProvider.handleMessage                         *)
(***************************************************************************)
FIVE_MINUTES == 5 * 60 * 1000

\* (mutant: a cached session exactly five minutes old is kept)
sessions_list_AtFive(prev, agentSessions, dateNow) ==
  LET agentSessionIds == {agentSessions[i].sessionId : i \in DOMAIN agentSessions}
      fiveMinutesAgo == dateNow - FIVE_MINUTES
      cachedRecent == SelectSeq(prev, LAMBDA x : x.sessionId \notin agentSessionIds
                                                /\ x.lastActivity >= fiveMinutesAgo)
  IN agentSessions \o cachedRecent

\* case 'sessions_list': the updater given to setSessions
sessions_list(prev, agentSessions, dateNow) ==
  LET agentSessionIds == {agentSessions[i].sessionId : i \in DOMAIN agentSessions}
      fiveMinutesAgo == dateNow - FIVE_MINUTES
      cachedRecent == SelectSeq(prev, LAMBDA x : x.sessionId \notin agentSessionIds
                                                /\ x.lastActivity > fiveMinutesAgo)
  IN agentSessions \o cachedRecent

\* useWebSocket ws.onmessage: the agentConnected flag after frame f of the Relay
\* (data.agentConnected is defined in the reply to auth only)
onmessage(agentConnected, f) ==
  IF f.type # "status" THEN agentConnected
  ELSE LET a1 == IF f.code = "connected" /\ f.role # "-" THEN f.agentConnected
                 ELSE agentConnected
           a2 == IF f.reason = "agent_connected" THEN TRUE ELSE a1
       IN IF f.reason = "agent_disconnected" THEN FALSE ELSE a2

RECURSIVE delivered(_, _)
\* the flag once the frames have been delivered in order
delivered(agentConnected, frames) ==
  IF frames = <<>> THEN agentConnected
  ELSE delivered(onmessage(agentConnected, Head(frames)), Tail(frames))

\* useState(false): the flag of a Client whose socket has carried the frames
agentConnectedOf(frames) == delivered(FALSE, frames)

\* handleMessage
handleMessage(prev, message, dateNow) ==
  IF message.type = "status" /\ message.status = "sessions_list"
  THEN sessions_list(prev, message.sessions, dateNow)
  ELSE prev

\* the sessions a list names and the times of their last activity: before, at and
\* after the instant five minutes before the latest clock value
BrowserSessionIds == {"s1", "s2"}
LastActivities == {0, 1, 2}
SessionInfos == [sessionId : BrowserSessionIds, lastActivity : LastActivities]
SessionLists == UNION {[1..n -> SessionInfos] : n \in 0..MaxListLen}
BrowserClock == {0, FIVE_MINUTES, FIVE_MINUTES + 1}

SessionsListMessage(list) == [type |-> "status", status |-> "sessions_list", sessions |-> list]

\* the provider mounts with the sessions of localStorage
InitBrowser ==
  /\ RelayInit /\ AgentInit /\ delay = -1 /\ FormatterInit /\ PtyIdle /\ OtherInit
  /\ clientSessions \in SessionLists
  /\ browserNow \in BrowserClock
  /\ inbox = NoMessage
  /\ handled = 0

\* a sessions_list status arrives
Deliver(list) ==
  /\ inbox = NoMessage
  /\ handled < MaxMessages
  /\ inbox' = SessionsListMessage(list)
  /\ UNCHANGED <<relayVars, agentVars, delay, formatterVars, ptyVars, otherVars,
                 clientSessions, browserNow, handled>>

\* handleMessage runs on it
HandleMessage ==
  /\ inbox # NoMessage
  /\ clientSessions' = handleMessage(clientSessions, inbox, browserNow)
  /\ inbox' = NoMessage
  /\ handled' = handled + 1
  /\ UNCHANGED <<relayVars, agentVars, delay, formatterVars, ptyVars, otherVars, browserNow>>

NextBrowser ==
  \/ \E list \in SessionLists : Deliver(list)
  \/ HandleMessage

SpecBrowser == InitBrowser /\ [][NextBrowser]_vars

(***************************************************************************)
(* The chat adapter: OutputFormatter                                       *)
(* A text is a sequence of lines; a line is its length and the position of *)
(* the one character of it that looksLikeCode matches (0: none). Lines     *)
(* hold no white space. A line also carries the number of the addOutput    *)
(* call it came with (id, 0 where calls are not told apart), and a message *)
(* the ids of its first and last line.                                     *)
(***************************************************************************)
TELEGRAM_MAX_LENGTH == 4096
BUFFER_TIMEOUT_MS == 500
MAX_BUFFER_SIZE == 8192

LineOf(len, codeAt, id) == [len |-> len, codeAt |-> codeAt, id |-> id]
Line(len, codeAt) == LineOf(len, codeAt, 0)
EmptyLine == Line(0, 0)

RECURSIVE squeeze(_, _)
\* cleaned.replace(/\n{4,}/g, '\n\n\n'): of a run of empty lines after a line, two stay
squeeze(lines, run) ==
  IF lines = <<>> THEN <<>>
  ELSE IF Head(lines).len = 0
       THEN IF run >= 2 THEN squeeze(Tail(lines), run)
            ELSE <<Head(lines)>> \o squeeze(Tail(lines), run + 1)
       ELSE <<Head(lines)>> \o squeeze(Tail(lines), 0)

RECURSIVE trimStart(_)
trimStart(lines) ==
  IF lines # <<>> /\ Head(lines).len = 0 THEN trimStart(Tail(lines)) ELSE lines

RECURSIVE trimEnd(_)
trimEnd(lines) ==
  IF lines # <<>> /\ lines[Len(lines)].len = 0
  THEN trimEnd(SubSeq(lines, 1, Len(lines) - 1)) ELSE lines

\* cleanOutput: the lines of the cleaned text
cleanOutput(lines) == trimEnd(trimStart(squeeze(lines, 0)))

RECURSIVE sumLen(_)
sumLen(lines) == IF lines = <<>> THEN 0 ELSE Head(lines).len + sumLen(Tail(lines))

\* buffer.content.length: every line added ends with "\n"
contentLength(lines) == sumLen(lines) + Len(lines)

\* text.length of the lines joined by "\n"
textLength(lines) == IF lines = <<>> THEN 0 ELSE sumLen(lines) + Len(lines) - 1

\* looksLikeCode, of the joined lines
anyCode(lines) == \E i \in DOMAIN lines : lines[i].codeAt > 0

\* formatForTelegram: the message, as its length and what was added to the text
formatForTelegram(len, code, isContinuation, hasMore) ==
  [length |-> len + (IF code THEN 8 ELSE 0) + (IF isContinuation THEN 4 ELSE 0)
                  + (IF hasMore THEN 4 ELSE 0),
   fenced |-> code, isContinuation |-> isContinuation, hasMore |-> hasMore]

\* the message with the ids of the first and the last line its text is taken from
OfLines(message, first, last) == message @@ [first |-> first, last |-> last]

RECURSIVE splitLongLine(_, _)
\* splitLongLine: the parts, each a line; no space to split at, so splitIndex = maxLength
splitLongLine(line, maxLength) ==
  IF line.len > maxLength
  THEN <<LineOf(maxLength, IF line.codeAt <= maxLength THEN line.codeAt ELSE 0, line.id)>>
       \o splitLongLine(LineOf(line.len - maxLength,
                               IF line.codeAt > maxLength THEN line.codeAt - maxLength ELSE 0,
                               line.id),
                        maxLength)
  ELSE IF line.len > 0 THEN <<line>> ELSE <<>>

RECURSIVE pushParts(_, _, _)
\* the for loop over splitLines
pushParts(chunks, splitLines, i) ==
  IF i > Len(splitLines) THEN chunks
  ELSE pushParts(Append(chunks,
                        OfLines(formatForTelegram(splitLines[i].len, splitLines[i].codeAt > 0,
                                                  Len(chunks) > 0 \/ i > 1, i < Len(splitLines)),
                                splitLines[i].id, splitLines[i].id)),
                 splitLines, i + 1)

RECURSIVE chunkLoop(_, _, _)
\* the for loop over lines; currentChunk is [len, code, first, last], empty if len = 0
chunkLoop(chunks, currentChunk, lines) ==
  IF lines = <<>>
  THEN IF currentChunk.len > 0
       THEN Append(chunks, OfLines(formatForTelegram(currentChunk.len, currentChunk.code,
                                                     Len(chunks) > 0, FALSE),
                                   currentChunk.first, currentChunk.last))
       ELSE chunks
  ELSE LET line == Head(lines)
           lineWithNewline == IF currentChunk.len > 0 THEN 1 + line.len ELSE line.len
       IN IF currentChunk.len + lineWithNewline > TELEGRAM_MAX_LENGTH - 50
          THEN IF currentChunk.len > 0
               THEN chunkLoop(Append(chunks,
                                     OfLines(formatForTelegram(currentChunk.len,
                                                               currentChunk.code,
                                                               Len(chunks) > 0, TRUE),
                                             currentChunk.first, currentChunk.last)),
                              [len |-> line.len, code |-> line.codeAt > 0,
                               first |-> line.id, last |-> line.id], Tail(lines))
               ELSE chunkLoop(pushParts(chunks,
                                        splitLongLine(line, TELEGRAM_MAX_LENGTH - 50), 1),
                              currentChunk, Tail(lines))
          ELSE chunkLoop(chunks,
                         [len |-> currentChunk.len + lineWithNewline,
                          code |-> currentChunk.code \/ line.codeAt > 0,
                          first |-> IF currentChunk.len > 0 THEN currentChunk.first ELSE line.id,
                          last |-> line.id],
                         Tail(lines))

\* chunkMessage
chunkMessage(lines) ==
  IF textLength(lines) <= TELEGRAM_MAX_LENGTH
  THEN <<OfLines(formatForTelegram(textLength(lines), anyCode(lines), FALSE, FALSE),
                 Head(lines).id, lines[Len(lines)].id)>>
  ELSE chunkLoop(<<>>, [len |-> 0, code |-> FALSE, first |-> 0, last |-> 0], lines)

\* the formatter: buffer content, timer and the messages given to the callback
F == [content |-> bufferContent, timer |-> bufferTimer, pending |-> flushPending,
      due |-> timerDue, now |-> formatterNow, sent |-> sentMessages]

\* if (buffer.timer) { clearTimeout(buffer.timer); buffer.timer = null }
clearBufferTimer(st) ==
  IF st.timer THEN [st EXCEPT !.timer = FALSE, !.pending = FALSE, !.due = -1] ELSE st

\* flush
flush(st) ==
  IF st.content = <<>> THEN st
  ELSE LET cleaned == cleanOutput(st.content)
           s1 == [clearBufferTimer(st) EXCEPT !.content = <<>>]
       IN IF cleaned = <<>> THEN s1
          ELSE [s1 EXCEPT !.sent = @ \o chunkMessage(cleaned)]

\* (mutant: a timer that is set is left to run)
addOutput_KeepTimer(st, data) ==
  LET s1 == [st EXCEPT !.content = @ \o data]
  IN IF contentLength(s1.content) >= MAX_BUFFER_SIZE THEN flush(s1)
     ELSE IF st.timer THEN s1
     ELSE [s1 EXCEPT !.timer = TRUE, !.pending = TRUE, !.due = st.now + BUFFER_TIMEOUT_MS]

\* addOutput, data being a sequence of lines, each with its "\n" (empty: data is '')
addOutput(st, data) ==
  LET s1 == [clearBufferTimer(st) EXCEPT !.content = @ \o data]
  IN IF contentLength(s1.content) >= MAX_BUFFER_SIZE THEN flush(s1)
     ELSE [s1 EXCEPT !.timer = TRUE, !.pending = TRUE, !.due = st.now + BUFFER_TIMEOUT_MS]

\* the setTimeout callback of addOutput
onFlushTimer(st) == flush([st EXCEPT !.pending = FALSE])

\* the lengths of lines: short ones, ones about the length a chunk may have, ones
\* that must be split
LineLengths == {0, 1, 4046, 4047, 4089, 8093}
Lines == {EmptyLine} \cup {Line(n, k) : n \in LineLengths \ {0}, k \in {0, 1}}

FormatterCommit(st) ==
  /\ bufferContent' = st.content
  /\ bufferTimer' = st.timer
  /\ flushPending' = st.pending
  /\ timerDue' = st.due
  /\ sentMessages' = st.sent
  /\ UNCHANGED <<relayVars, agentVars, delay, browserVars, ptyVars, otherVars>>

\* (in SpecFormatter time is not followed)
AddOutput(line) ==
  /\ addedLines < MaxLines
  /\ addedLines' = addedLines + 1
  /\ FormatterCommit(addOutput(F, <<line>>))
  /\ lastAdded' = formatterNow
  /\ UNCHANGED formatterNow

\* the buffer timer fires
FlushTimer ==
  /\ flushPending
  /\ FormatterCommit(onFlushTimer(F))
  /\ UNCHANGED <<addedLines, formatterNow, lastAdded>>

NextFormatter ==
  \/ \E line \in Lines : AddOutput(line)
  \/ FlushTimer

SpecFormatter == Init /\ [][NextFormatter]_vars


(***************************************************************************)
(* SessionManager: the writes to the PTYs and the timers that make them    *)
(***************************************************************************)
P == [pending |-> pending, written |-> written]

\* pty.write: kind is "launch" (the claude command), "input" or "enter"
write(p, sessionId, kind) ==
  [p EXCEPT !.written = Append(@, [sessionId |-> sessionId, kind |-> kind])]

\* setTimeout of a callback that writes kind to the PTY of the session
setTimeout(p, sessionId, kind) ==
  [p EXCEPT !.pending = Append(@, [sessionId |-> sessionId, kind |-> kind])]

\* the callback of startSession's timer
launchClaude(p, st, sessionId) ==
  IF sessionId \in DOMAIN st.sessions THEN write(p, sessionId, "launch") ELSE p

\* (mutant: the extra Enter is written whether or not the session is still there)
extraEnter_NoCheck(p, st, sessionId) == write(p, sessionId, "enter")

\* the callback of sendInput's timer
extraEnter(p, st, sessionId) ==
  IF sessionId \in DOMAIN st.sessions THEN write(p, sessionId, "enter") ELSE p

\* startSession, after this.sessions.set
startSessionPty(p, sessionId) == setTimeout(p, sessionId, "launch")

\* sendInput
sendInputPty(p, st, sessionId) ==
  IF sessionId \notin DOMAIN st.sessions THEN p
  ELSE setTimeout(write(p, sessionId, "input"), sessionId, "enter")

\* the calls of startSession and sendInput that handleCommand makes
commandPty(p, st, c) ==
  IF c.command = "start_session" /\ start_session(st, c).nextId # st.nextId
  THEN startSessionPty(p, st.nextId)
  ELSE IF c.command = "send_input" /\ c.sessionId # 0 /\ c.hasInput /\ st.sessionManager
  THEN sendInputPty(p, st, c.sessionId)
  ELSE p

\* a timer callback runs
onTimer(p, st, t) ==
  IF t.kind = "launch" THEN launchClaude(p, st, t.sessionId)
  ELSE extraEnter(p, st, t.sessionId)

\* the sequence without its i-th element
RemoveAt(s, i) == SubSeq(s, 1, i - 1) \o SubSeq(s, i + 1, Len(s))

PtyCommit(p) ==
  /\ pending' = p.pending
  /\ written' = p.written

\* ws.on('message') with a command, its effect on the PTYs included
ReceivePty(m) ==
  /\ AgentEvent
  /\ agentWs = "OPEN"
  /\ rejectedAt = -1
  /\ AgentCommit(onAgentMessage(A, m))
  /\ PtyCommit(commandPty(P, A, m))
  /\ UNCHANGED <<produced, offline, rejectedAt>>

StartPty == \E p \in projects : ReceivePty(Command("start_session", p, 0))

\* for a session that exists or for the next id, which names none
SendInput(sessionId) == ReceivePty(Command("send_input", "", sessionId))

CloseSession(sessionId) == ReceivePty(Command("close_session", "", sessionId))

\* the i-th timer set fires (in any order: the events between two timers are not timed)
TimerRuns(i) ==
  /\ AgentEvent
  /\ i \in DOMAIN pending
  /\ PtyCommit(onTimer([P EXCEPT !.pending = RemoveAt(@, i)], A, pending[i]))
  /\ AgentCommit(A)
  /\ UNCHANGED <<produced, offline, rejectedAt>>

NextPty ==
  \/ UplinkOpen
  \/ StartPty
  \/ \E sessionId \in 1..nextId : SendInput(sessionId)
  \/ \E sessionId \in 1..nextId : CloseSession(sessionId)
  \/ \E sessionId \in 1..nextId : PtyExit(sessionId)
  \/ \E k \in TickRuns : Tick(k)
  \/ \E i \in 1..MaxAgentSteps : TimerRuns(i)

SpecPty == Init /\ [][NextPty]_vars

\* ---------------------------------------------------------------------------
\* the output buffer of a session, chunk by chunk
\* ---------------------------------------------------------------------------
RECURSIVE Repeat(_, _)
Repeat(s, n) == IF n = 0 THEN <<>> ELSE s \o Repeat(s, n - 1)

\* the chunks a PTY writes: part of a line, the end of a line, an empty line, and
\* more than a quarter of a buffer of lines at once
PtyChunks ==
  {<<"y">>, <<"y", "\n">>, <<"\n">>, Repeat(<<"y", "\n">>, BUFFER_MAX_LINES \div 4 + 1)}

NextBuffer ==
  \/ UplinkOpen
  \/ StartSession
  \/ \E sessionId \in SessionIds, data \in PtyChunks : PtyData(sessionId, data)

SpecBuffer == Init /\ [][NextBuffer]_vars

(***************************************************************************)
(* The chat adapter: RelayClient                                           *)
(***************************************************************************)
RC == [sockets |-> clientSockets, ws |-> clientWs, state |-> clientState,
       reconnectAttempt |-> reconnectAttempt, reconnectTimer |-> reconnectTimer,
       pingInterval |-> pingInterval, shouldReconnect |-> shouldReconnect,
       timeouts |-> clientTimeouts]

\* cleanup(): clearInterval, clearTimeout
clientCleanup(c) ==
  [c EXCEPT !.pingInterval = FALSE,
            !.reconnectTimer = FALSE,
            !.timeouts = IF c.reconnectTimer THEN @ - 1 ELSE @]

\* connect()
clientConnect(c) ==
  IF c.ws # 0 /\ c.sockets[c.ws] \in {"CONNECTING", "OPEN"} THEN c
  ELSE [c EXCEPT !.state = "connecting",
                 !.sockets = Append(@, "CONNECTING"),
                 !.ws = Len(c.sockets) + 1]

\* disconnect(); ws.close() starts the closing handshake, the close event comes later
clientDisconnect(c) ==
  LET c1 == clientCleanup([c EXCEPT !.shouldReconnect = FALSE])
      c2 == IF c1.ws # 0
            THEN [c1 EXCEPT !.sockets[c1.ws] =
                               IF @ \in {"CONNECTING", "OPEN"} THEN "CLOSING" ELSE @,
                            !.ws = 0]
            ELSE c1
  IN [c2 EXCEPT !.state = "disconnected"]

startPingInterval(c) == [c EXCEPT !.pingInterval = TRUE]

\* handleStatus: of a frame of the Relay, code is payload.status, role and reason
\* are payload.data.role and payload.data.reason
handleStatus(c, m) ==
  IF m.code = "connected" /\ m.role = "client"
  THEN startPingInterval([c EXCEPT !.state = "connected", !.reconnectAttempt = 0])
  ELSE c

\* handleMessage: output and error frames are handed to listeners
clientHandleMessage(c, m) == IF m.type = "status" THEN handleStatus(c, m) ELSE c

\* scheduleReconnect(); the delay is not modelled, the timer fires at any time
clientScheduleReconnect(c) ==
  [c EXCEPT !.state = "reconnecting",
            !.reconnectAttempt = @ + 1,
            !.reconnectTimer = TRUE,
            !.timeouts = (IF c.reconnectTimer THEN @ - 1 ELSE @) + 1]

\* (mutant: a reconnect is scheduled whether or not disconnect() was called)
clientOnClose_Always(c, i) ==
  clientScheduleReconnect(
    [clientCleanup([c EXCEPT !.sockets[i] = "CLOSED"]) EXCEPT !.state = "disconnected"])

\* ws.on('close') of the i-th socket made
clientOnClose(c, i) ==
  LET c1 == [clientCleanup([c EXCEPT !.sockets[i] = "CLOSED"]) EXCEPT !.state = "disconnected"]
  IN IF c1.shouldReconnect THEN clientScheduleReconnect(c1) ELSE c1

\* the setTimeout callback of scheduleReconnect
clientOnTimeout(c) == clientConnect([c EXCEPT !.reconnectTimer = FALSE, !.timeouts = @ - 1])

\* the frames the Relay sends to a Client
ClientFrames ==
  {Connected("client", ac) : ac \in BOOLEAN}
    \cup {AgentConnected, AgentDisconnected, ErrorFrame("AUTH_FAILED")}

RelayClientCommit(c) ==
  /\ clientSockets' = c.sockets
  /\ clientWs' = c.ws
  /\ clientState' = c.state
  /\ reconnectAttempt' = c.reconnectAttempt
  /\ reconnectTimer' = c.reconnectTimer
  /\ pingInterval' = c.pingInterval
  /\ shouldReconnect' = c.shouldReconnect
  /\ clientTimeouts' = c.timeouts

ClientEvent ==
  /\ clientSteps < MaxClientSteps
  /\ clientSteps' = clientSteps + 1
  /\ UNCHANGED <<relayVars, agentVars, delay, browserVars, formatterVars, ptyVars,
                 memoryVars, taskVars>>

\* the adapter calls connect()
ClientConnect ==
  /\ ClientEvent
  /\ RelayClientCommit(clientConnect(RC))
  /\ UNCHANGED clientHandled

\* the adapter calls disconnect()
ClientDisconnect ==
  /\ ClientEvent
  /\ RelayClientCommit(clientDisconnect(RC))
  /\ UNCHANGED clientHandled

\* ws.on('open'): authenticate() sends the auth frame
ClientOpen(i) ==
  /\ ClientEvent
  /\ i \in DOMAIN clientSockets
  /\ clientSockets[i] = "CONNECTING"
  /\ RelayClientCommit([RC EXCEPT !.sockets[i] = "OPEN"])
  /\ UNCHANGED clientHandled

\* ws.on('message'): a frame arrives on a socket that was opened and has not closed
ClientMessage(i, m) ==
  /\ ClientEvent
  /\ i \in DOMAIN clientSockets
  /\ clientSockets[i] \in {"OPEN", "CLOSING"}
  /\ RelayClientCommit(clientHandleMessage(RC, m))
  /\ clientHandled' = clientHandled + 1

\* ws.on('close'): the socket has closed (a failed connection attempt included)
ClientClose(i) ==
  /\ ClientEvent
  /\ i \in DOMAIN clientSockets
  /\ clientSockets[i] # "CLOSED"
  /\ RelayClientCommit(clientOnClose(RC, i))
  /\ UNCHANGED clientHandled

\* the timer of scheduleReconnect fires
ClientTimer ==
  /\ ClientEvent
  /\ clientTimeouts > 0
  /\ RelayClientCommit(clientOnTimeout(RC))
  /\ UNCHANGED clientHandled

NextRelayClient ==
  \/ ClientConnect
  \/ ClientDisconnect
  \/ \E i \in 1..MaxClientSteps : ClientOpen(i)
  \/ \E i \in 1..MaxClientSteps, m \in ClientFrames : ClientMessage(i, m)
  \/ \E i \in 1..MaxClientSteps : ClientClose(i)
  \/ ClientTimer

SpecRelayClient == Init /\ [][NextRelayClient]_vars

\* ---------------------------------------------------------------------------
\* the OutputFormatter with its clock: calls of addOutput told apart, data of any
\* size (none included), flush() called by the adapter, time in half timeouts
\* ---------------------------------------------------------------------------
FormatterTick == BUFFER_TIMEOUT_MS \div 2

\* line lengths: with their "\n" two lines of the longest fill the buffer to
\* MAX_BUFFER_SIZE exactly, two of the second longest do not
FlushLengths == {0, 1, MAX_BUFFER_SIZE \div 2 - 2, MAX_BUFFER_SIZE \div 2 - 1}

\* the data of the id-th call of addOutput: '' or one line
FlushData(id) == {<<>>} \cup {<<LineOf(n, 0, id)>> : n \in FlushLengths}

AddData(data) ==
  /\ addedLines < MaxLines
  /\ addedLines' = addedLines + 1
  /\ FormatterCommit(addOutput(F, data))
  /\ lastAdded' = formatterNow
  /\ UNCHANGED formatterNow

\* the buffer timer fires, BUFFER_TIMEOUT_MS after it was set
TimerDue ==
  /\ flushPending
  /\ formatterNow = timerDue
  /\ FormatterCommit(onFlushTimer(F))
  /\ UNCHANGED <<addedLines, formatterNow, lastAdded>>

\* the adapter calls flush(sessionId)
Flush ==
  /\ FormatterCommit(flush(F))
  /\ UNCHANGED <<addedLines, formatterNow, lastAdded>>

\* time passes, not beyond the instant a timer is due
Advance ==
  /\ formatterNow < MaxFormatterTicks * FormatterTick
  /\ flushPending => formatterNow < timerDue
  /\ formatterNow' = formatterNow + FormatterTick
  /\ UNCHANGED <<relayVars, agentVars, delay, browserVars, ptyVars, otherVars>>
  /\ UNCHANGED <<bufferContent, bufferTimer, flushPending, timerDue, lastAdded,
                 sentMessages, addedLines>>

NextFlush ==
  \/ \E data \in FlushData(addedLines + 1) : AddData(data)
  \/ TimerDue
  \/ Flush
  \/ Advance

SpecFlush == Init /\ [][NextFlush]_vars

(***************************************************************************)
(* MemoryManager: the calls of the Agent, the debounce timer and clear()   *)
(***************************************************************************)
MaxMemorySteps == 5

MemoryProjects == {"p1"}

MemoryPaths == {"a.ts", "b.ts"}

MemoryCommands == {"npm test"}

MemoryTopics == {"auth"}

MemoryKeys == {"timezone"}

MemoryValues == {"UTC", undefined}

\* a memory.json an earlier run has written
StoredMemory == [version |-> 1, preferences |-> ("timezone" :> "UTC"),
                 projectFacts |-> NoEntries, recentContext |-> NoEntries]

MemoryFiles == {NoFile, <<StoredMemory>>}

MM == [heap |-> memoryHeap, memory |-> memory, file |-> memoryFile, dirty |-> dirty,
       saveDebounceTimer |-> saveDebounceTimer]

MemoryCommit(st) ==
  /\ memoryHeap' = st.heap
  /\ memory' = st.memory
  /\ memoryFile' = st.file
  /\ dirty' = st.dirty
  /\ saveDebounceTimer' = st.saveDebounceTimer

MemoryEvent ==
  /\ memorySteps < MaxMemorySteps
  /\ memorySteps' = memorySteps + 1
  /\ UNCHANGED <<relayVars, agentVars, delay, browserVars, formatterVars, ptyVars,
                 relayClientVars, taskVars>>

RecordActivity(projectId, activity) ==
  MemoryEvent /\ MemoryCommit(recordActivity(MM, projectId, activity))

RecordFile(projectId, path) ==
  MemoryEvent /\ MemoryCommit(recordFile(MM, projectId, path))

RecordCommand(projectId, command) ==
  MemoryEvent /\ MemoryCommit(recordCommand(MM, projectId, command))

RecordTopic(projectId, topic) ==
  MemoryEvent /\ MemoryCommit(recordTopic(MM, projectId, topic))

SetPreference(key, value) ==
  MemoryEvent /\ MemoryCommit(setPreference(MM, key, value))

\* the debounce timer of save() fires
SaveTimer ==
  /\ MemoryEvent
  /\ saveDebounceTimer
  /\ MemoryCommit(onSaveTimer(MM))

Clear ==
  MemoryEvent /\ MemoryCommit(clear(MM))

InitMemory ==
  /\ RelayInit /\ AgentInit /\ delay = -1 /\ BrowserIdle /\ FormatterInit /\ PtyIdle
  /\ RelayClientInit /\ TaskInit
  /\ \E file \in MemoryFiles : MemoryInitAt(file)

NextMemory ==
  \/ \E projectId \in MemoryProjects, activity \in MemoryTopics : RecordActivity(projectId, activity)
  \/ \E projectId \in MemoryProjects, path \in MemoryPaths : RecordFile(projectId, path)
  \/ \E projectId \in MemoryProjects, command \in MemoryCommands : RecordCommand(projectId, command)
  \/ \E projectId \in MemoryProjects, topic \in MemoryTopics : RecordTopic(projectId, topic)
  \/ \E key \in MemoryKeys, value \in MemoryValues : SetPreference(key, value)
  \/ SaveTimer
  \/ Clear

SpecMemory == InitMemory /\ [][NextMemory]_vars

(***************************************************************************)
(* TaskWatcher: the webhook and the calls of the Agent                     *)
(***************************************************************************)
MaxTaskSteps == 5

TaskIds == {"t1", "t2"}

\* request bodies: taskId or title may be missing
TaskPayloads == {[taskId |-> taskId, title |-> title] : taskId \in TaskIds \cup {""}, title \in {"", "x"}}

TaskStatuses == {"pending_approval", "approved", "rejected", "in_progress", "completed"}

TaskSessions == {undefined, "s1"}

T == [pendingTasks |-> pendingTasks, received |-> taskReceived]

TaskCommit(st, call) ==
  /\ pendingTasks' = st.pendingTasks
  /\ taskReceived' = st.received
  /\ taskCall' = call
  /\ taskHistory' = taskHistory \cup {<<st.pendingTasks[i].taskId, st.pendingTasks[i].status>> :
                                        i \in DOMAIN st.pendingTasks}

TaskEvent ==
  /\ taskSteps < MaxTaskSteps
  /\ taskSteps' = taskSteps + 1
  /\ UNCHANGED <<relayVars, agentVars, delay, browserVars, formatterVars, ptyVars,
                 relayClientVars, memoryVars>>

\* POST /webhook/task
Webhook(payload) ==
  /\ TaskEvent
  /\ LET r == webhookTask(T, payload)
     IN TaskCommit(r.st, [NoCall EXCEPT !.op = "webhook", !.taskId = payload.taskId,
                                          !.code = r.result])

GetPendingTasks ==
  /\ TaskEvent
  /\ TaskCommit(T, [NoCall EXCEPT !.op = "getPendingTasks", !.tasks = getPendingTasks(T)])

ApproveTask(taskId) ==
  /\ TaskEvent
  /\ LET r == approveTask(T, taskId)
     IN TaskCommit(r.st, [NoCall EXCEPT !.op = "approveTask", !.taskId = taskId,
                                          !.tasks = r.result])

RejectTask(taskId) ==
  /\ TaskEvent
  /\ LET r == rejectTask(T, taskId)
     IN TaskCommit(r.st, [NoCall EXCEPT !.op = "rejectTask", !.taskId = taskId,
                                          !.ok = r.result])

UpdateTaskStatus(taskId, status, sessionId) ==
  /\ TaskEvent
  /\ TaskCommit(updateTaskStatus(T, taskId, status, sessionId),
                [NoCall EXCEPT !.op = "updateTaskStatus", !.taskId = taskId])

ClearCompleted ==
  /\ TaskEvent
  /\ LET r == clearCompleted(T)
     IN TaskCommit(r.st, [NoCall EXCEPT !.op = "clearCompleted", !.count = r.result])

NextTask ==
  \/ \E payload \in TaskPayloads : Webhook(payload)
  \/ GetPendingTasks
  \/ \E taskId \in TaskIds : ApproveTask(taskId)
  \/ \E taskId \in TaskIds : RejectTask(taskId)
  \/ \E taskId \in TaskIds, status \in TaskStatuses, sessionId \in TaskSessions :
        UpdateTaskStatus(taskId, status, sessionId)
  \/ ClearCompleted

SpecTask == Init /\ [][NextTask]_vars

(***************************************************************************)
(* Properties of the Relay                                                 *)
(***************************************************************************)
\* the Relay's state after the step
NextR == [sock |-> sock', rx |-> rx', closeCode |-> closeCode',
          authenticated |-> authenticated', role |-> role',
          agent |-> agent', clients |-> clients', outbox |-> outbox', now |-> now',
          thrown |-> sendFailed']

\* the step is ws.on('message') of socket ws handling frame m
\* (the sends that threw are those sendFailed' names)
IsMessage(ws, m) ==
  /\ nsent'[ws] = nsent[ws] + 1
  /\ NextR = onMessage(R, ws, m, nsent[ws] + 1, sendFailed', agent.ws \in sendFailed')

\* the frames the step appends to the outbox of socket c
NewFrames(c) ==
  IF Len(outbox'[c]) > Len(outbox[c])
  THEN SubSeq(outbox'[c], Len(outbox[c]) + 1, Len(outbox'[c]))
  ELSE <<>>

Occurrences(q, f) == Cardinality({i \in DOMAIN q : q[i] = f})

AgentAuth == [type |-> "auth", token |-> RELAY_TOKEN, role |-> "agent"]
ClientAuth == [type |-> "auth", token |-> RELAY_TOKEN, role |-> "client"]
OtherAuth == [type |-> "auth", token |-> RELAY_TOKEN, role |-> "other"]
BadAuth == [type |-> "auth", token |-> "bad", role |-> "agent"]

\* the connections with an open socket whose handler holds authenticated = true, role = 'agent'
AgentConns == {c \in Conns : sock[c] = "OPEN" /\ authenticated[c] /\ role[c] = "agent"}

\* C1: at most one connection with an open socket is (authenticated, role = agent),
\* and a non-empty agent slot refers to a connection in that state, the only one.
C1_SingleAgent ==
  /\ Cardinality(AgentConns) <= 1
  /\ agent # NoAgent =>
       /\ authenticated[agent.ws] /\ role[agent.ws] = "agent"
       /\ AgentConns \subseteq {agent.ws}

\* C2: an agent auth with the valid token on an open socket, while another socket
\* is bound as agent and open, is answered with AGENT_EXISTS and close 4002; the
\* slot is unchanged, nothing is sent to any other socket, /health still says
\* agent:true; and when the rejected socket errors or closes, the slot is unchanged
\* and nothing is sent to any other socket.
C2_AgentExists ==
  [][\A ws \in Conns :
       /\ (sock[ws] = "OPEN" /\ hasAgent(R) /\ agent.ws # ws /\ IsMessage(ws, AgentAuth)) =>
            /\ outbox'[ws] = Append(outbox[ws], ErrorFrame("AGENT_EXISTS"))
            /\ sock'[ws] = "CLOSING"
            /\ closeCode'[ws] = CLOSE_AGENT_EXISTS
            /\ agent' = agent
            /\ \A c \in Conns \ {ws} : outbox'[c] = outbox[c]
            /\ health(NextR).agent
       /\ (/\ closeCode[ws] = CLOSE_AGENT_EXISTS /\ closeCode'[ws] = CLOSE_AGENT_EXISTS
           /\ agent.ws # ws
           /\ now' = now /\ nsent' = nsent
           /\ (sock'[ws] # sock[ws] \/ rx'[ws] # rx[ws])) =>
            /\ agent' = agent
            /\ \A c \in Conns \ {ws} : outbox'[c] = outbox[c]
    ]_vars

\* a rejected agent socket has closed while the incumbent is bound and a client listens
C2_Witness ==
  \E ws \in Conns, c \in DOMAIN clients :
     /\ closeCode[ws] = CLOSE_AGENT_EXISTS /\ sock[ws] = "CLOSED"
     /\ hasAgent(R) /\ agent.ws # ws /\ c # ws /\ c # agent.ws
     /\ sock[c] = "OPEN"
     /\ Occurrences(outbox[c], AgentDisconnected) = 0

\* C3: no frame of a socket that has not earlier sent a valid auth (the token and a
\* role in {agent, client}) is forwarded or broadcast; and on a socket the Relay has
\* not yet closed, a JSON frame other than auth before authentication is answered
\* with NOT_AUTHENTICATED and close 4001, an auth with a wrong token with AUTH_FAILED
\* and close 4001, an auth with the token and another role with INVALID_ROLE and
\* close 4003.
Rejected(ws, code, cc) ==
  /\ outbox'[ws] = Append(outbox[ws], ErrorFrame(code))
  /\ sock'[ws] = "CLOSING"
  /\ closeCode'[ws] = cc
  /\ \A c \in Conns \ {ws} : outbox'[c] = outbox[c]

C3_AuthGate ==
  [][\A ws \in Conns :
       /\ ~validAuth[ws] =>
            \A c \in Conns : \A i \in DOMAIN NewFrames(c) : NewFrames(c)[i].src # ws
       /\ sock[ws] = "OPEN" =>
            /\ \A m \in DataFrames :
                 (~authenticated[ws] /\ IsMessage(ws, m)) =>
                    Rejected(ws, "NOT_AUTHENTICATED", CLOSE_AUTH)
            /\ IsMessage(ws, BadAuth) => Rejected(ws, "AUTH_FAILED", CLOSE_AUTH)
            /\ IsMessage(ws, OtherAuth) => Rejected(ws, "INVALID_ROLE", CLOSE_INVALID_ROLE)
    ]_vars

\* three sockets were turned away, one for each of the three reasons
C3_Witness ==
  \E a, b, c \in Conns :
     /\ outbox[a] = <<ErrorFrame("NOT_AUTHENTICATED")>> /\ closeCode[a] = CLOSE_AUTH
     /\ outbox[b] = <<ErrorFrame("AUTH_FAILED")>> /\ closeCode[b] = CLOSE_AUTH
     /\ outbox[c] = <<ErrorFrame("INVALID_ROLE")>> /\ closeCode[c] = CLOSE_INVALID_ROLE
     /\ ~authenticated[a] /\ ~authenticated[b] /\ ~authenticated[c]

\* C4: when the agent slot goes from empty to bound, agent_connected is written once
\* to every registered client with an open socket, and when it goes from bound to
\* empty, agent_disconnected is written once to every such client (a client whose
\* send throws excepted).
C4_SlotBroadcast ==
  [][/\ (agent = NoAgent /\ agent' # NoAgent) =>
          \A c \in (DOMAIN clients \cap DOMAIN clients') \ sendFailed' :
             sock[c] = "OPEN" => Occurrences(NewFrames(c), AgentConnected) = 1
     /\ (agent # NoAgent /\ agent' = NoAgent) =>
          \A c \in (DOMAIN clients \cap DOMAIN clients') \ sendFailed' :
             (sock[c] = "OPEN" /\ sock'[c] = "OPEN") =>
                Occurrences(NewFrames(c), AgentDisconnected) = 1
    ]_vars

\* C5: when the Relay handles an output/status/error frame of the agent, every
\* registered client either gets the frame appended to its stream, or its socket
\* is no longer open, or it is removed from the client set.
C5_NoSkip ==
  [][\A ws \in Conns : \A m \in DataFrames :
       (/\ m.type \in {"output", "status", "error"}
        /\ authenticated[ws] /\ role[ws] = "agent" /\ IsMessage(ws, m)) =>
          \A c \in DOMAIN clients :
             \/ outbox'[c] = Append(outbox[c], Forwarded(m, ws, nsent[ws] + 1))
             \/ sock[c] # "OPEN"
             \/ c \notin DOMAIN clients'
    ]_vars

\* C6: in the stream the Relay writes to a socket, the frames of one sender stand
\* in the order the sender sent them (clients' streams of agent frames, and the
\* agent's stream of each client's commands).
C6_Fifo ==
  \A c \in Conns : \A i, j \in DOMAIN outbox[c] :
     (i < j /\ outbox[c][i].src # "relay" /\ outbox[c][i].src = outbox[c][j].src) =>
        outbox[c][i].seq < outbox[c][j].seq

\* a client has received two frames of the agent
C6_Witness ==
  \E c \in DOMAIN clients : \E i, j \in DOMAIN outbox[c] :
     /\ i < j
     /\ agent # NoAgent /\ outbox[c][i].src = agent.ws /\ outbox[c][j].src = agent.ws
     /\ c # agent.ws

(***************************************************************************)
(* Properties of the Agent                                                 *)
(***************************************************************************)
\* the Agent's state after the step
NextA == [ws |-> agentWs', sessionManager |-> sessionManager', sessions |-> sessions',
          pty |-> pty', records |-> records', summaryFile |-> summaryFile',
          outputFile |-> outputFile', sessionProjectMap |-> sessionProjectMap',
          attempt |-> attempt', timer |-> timer', upSent |-> upSent',
          closedCalls |-> closedCalls', now |-> agentNow', nextId |-> nextId',
          halted |-> halted', platform |-> platform', uploads |-> uploads',
          uplinks |-> uplinks', timeouts |-> timeouts']

\* the step is ws.on('message') handling m
IsReceive(m) == agentWs = "OPEN" /\ ~halted /\ NextA = onAgentMessage(A, m)

\* the step lets k clock ticks pass
IsTick(k) == agentNow' # agentNow /\ NextA = elapse(A, k)

\* the frames the step writes to the uplink
NewUp ==
  IF Len(upSent') > Len(upSent) THEN SubSeq(upSent', Len(upSent) + 1, Len(upSent')) ELSE <<>>

SessionClosed(sessionId) == StatusMessage("session_closed", [sessionId |-> sessionId], sessionId)

ProjectOf(p) == IF p = "" THEN QUICK_SESSION_PROJECT_ID ELSE p

\* C7: a session leaves the session table only in a step that is close_session for
\* it, start_session for its project, an idle check at which it is more than
\* IDLE_TIMEOUT old, the exit of its PTY, or the shutdown; the open, the close and
\* the re-creation of the uplink socket leave the session table (hence the answer
\* to list_sessions), the PTYs and the history records unchanged.
C7_SessionsLeave ==
  [][/\ \A s \in DOMAIN sessions \ DOMAIN sessions' :
          \/ IsReceive(Command("close_session", "", s))
          \/ \E p \in ProjectIds :
                IsReceive(Command("start_session", p, 0)) /\ sessions[s].projectId = ProjectOf(p)
          \/ (\E k \in TickRuns : IsTick(k)) /\ agentNow' - sessions[s].lastActivity > IDLE_TIMEOUT
          \/ NextA = onExit(A, s) /\ pty'[s] = "exited"
          \/ halted'
     /\ (agentWs' # agentWs /\ ~halted') =>
          /\ sessions' = sessions
          /\ listSessions(NextA) = listSessions(A)
          /\ pty' = pty
          /\ records' = records
    ]_vars

\* list_sessions gave the same non-empty answer before the uplink closed and after
\* the reconnect
C7_Witness ==
  \E i, j, k \in DOMAIN upSent :
     /\ i < k /\ k < j
     /\ upSent[i].type = "status" /\ upSent[i].payload.status = "sessions_list"
     /\ upSent[i].payload.data.sessions # <<>>
     /\ upSent[k] = AuthMessage
     /\ upSent[j] = upSent[i]
     /\ attempt > 0

OnePerProject(ss) == \A s, t \in DOMAIN ss : ss[s].projectId = ss[t].projectId => s = t

\* C8: the session table never holds two sessions of one project id (__quick__
\* included); after a start_session that starts a session, the new session is the
\* only one of its project in the table, and every session of that project that
\* was in the table has its PTY killed, no open history record and a summary with
\* endTime.
C8_OnePerProject ==
  [][/\ OnePerProject(sessions')
     /\ \A p \in ProjectIds :
          (nextId' # nextId /\ IsReceive(Command("start_session", p, 0))) =>
             /\ {s \in DOMAIN sessions' : sessions'[s].projectId = ProjectOf(p)} = {nextId}
             /\ \A s \in DOMAIN sessions :
                  sessions[s].projectId = ProjectOf(p) =>
                     /\ pty'[s] = "killed"
                     /\ s \notin DOMAIN records'
                     /\ summaryFile'[s].endTime = agentNow
    ]_vars

\* two sessions of one project were started back to back: the later is in the
\* table, the earlier is closed and its summary has an endTime
C8_Witness ==
  \E s, t \in DOMAIN summaryFile :
     /\ t = s + 1
     /\ summaryFile[s].projectId = QUICK_SESSION_PROJECT_ID
     /\ summaryFile[t].projectId = QUICK_SESSION_PROJECT_ID
     /\ t \in DOMAIN sessions /\ s \notin DOMAIN sessions
     /\ summaryFile[s].endTime # -1 /\ summaryFile[t].endTime = -1
     /\ pty[s] = "killed" /\ closedCalls[s] = 1

NonEmptyLines(data) == SelectSeq(split(data), LAMBDA line : line # <<>>)

IsSuffix(q, buffer) ==
  Len(q) <= Len(buffer) /\ SubSeq(buffer, Len(buffer) - Len(q) + 1, Len(buffer)) = q

C11_RecordsEnded ==
  ~halted =>
     /\ DOMAIN records \subseteq DOMAIN sessions
     /\ \A s \in DOMAIN summaryFile \ DOMAIN sessions : summaryFile[s].endTime # -1

\* the step is ws.on('open') / ws.on('close') of the uplink socket
IsUplinkOpen == agentWs = "CONNECTING" /\ agentWs' = "OPEN"
IsUplinkClose == agentWs # "null" /\ agentWs' = "null"

\* C12 as claimed: the attempt counter becomes 0 only in the step that receives
\* status connected with role agent; the open of the socket (which sends auth) and
\* every other received frame leave it unchanged; the close of the socket, which
\* schedules the reconnect, adds one.
C12_ResetOnlyOnAuth ==
  [][/\ (attempt # 0 /\ attempt' = 0) => IsReceive(StatusConnected)
     /\ IsUplinkOpen => attempt' = attempt
     /\ attempt' # attempt => \A m \in RelayMessages \ {StatusConnected} : ~IsReceive(m)
     /\ IsUplinkClose => attempt' = attempt + 1
    ]_vars

\* C12 as amended: as above, with error AGENT_EXISTS excepted from the frames that
\* leave the counter unchanged.
C12_ResetOnlyOnAuthAmended ==
  [][/\ (attempt # 0 /\ attempt' = 0) => IsReceive(StatusConnected)
     /\ IsUplinkOpen => attempt' = attempt
     /\ attempt' # attempt =>
          \A m \in RelayMessages \ {StatusConnected, ErrorAgentExists} : ~IsReceive(m)
     /\ IsUplinkClose => attempt' = attempt + 1
    ]_vars

\* the uplink was lost and re-opened, and the counter was reset afterwards
C12_Witness ==
  /\ attempt = 0
  /\ agentWs = "OPEN"
  /\ Cardinality({i \in DOMAIN upSent : upSent[i] = AuthMessage}) = 2

\* C13: receiving error AGENT_EXISTS adds five to the attempt counter; as long as
\* the rejected socket lives the counter does not go down; and at the close of
\* that socket the counter, from which the delay of the reconnect is computed, is
\* at least five above its value before the rejection.
C13_AgentExistsBackoff ==
  [][/\ (rejectedAt = -1 /\ IsReceive(ErrorAgentExists)) => attempt' = attempt + 5
     /\ rejectedAt # -1 => attempt' >= attempt
     /\ (rejectedAt # -1 /\ IsUplinkClose) =>
          /\ attempt >= rejectedAt + 5
          /\ attempt' = attempt + 1
          /\ timer'
    ]_vars

\* a reconnect is scheduled after a rejection on the first connection
C13_Witness ==
  /\ timer
  /\ agentWs = "null"
  /\ attempt = 6

\* the b of the claim at counter n: min(30000, 1000 * 2^n), 2^5 * 1000 being above 30000
BaseOf(n) == IF n >= 5 THEN 30000 ELSE 1000 * 2^n

\* C14: the delay returned at counter n (the counter is n + 1 afterwards) lies in
\* [0.9 b, 1.1 b] for b = min(30000, 1000 * 2^n), so it is at most 33000 ms; b is
\* the base delay the code computes, and the base delay at the next counter is not
\* smaller.
C14_DelayRange ==
  delay # -1 =>
    LET n == attempt - 1
        b == BaseOf(n)
    IN /\ 9 * b * RandSteps <= 10 * delay
       /\ 10 * delay <= 11 * b * RandSteps
       /\ delay <= 33000 * RandSteps
       /\ baseDelay(n) = b
       /\ baseDelay(n + 1) >= baseDelay(n)

\* a delay below the cap was returned at a counter where Math.pow gives Infinity
C14_Witness ==
  /\ attempt - 1 >= InfinityAt
  /\ delay # -1
  /\ delay < RandSteps * maxDelay

\* the socket is registered (agent slot or client set) after the step
ReferencedNext(c) == (agent' # NoAgent /\ agent'.ws = c) \/ c \in DOMAIN clients'

\* C15: at a heartbeat tick (the only step that advances the clock) a registered
\* peer is terminated and removed from the state exactly if the Relay has not heard
\* from it (registration or pong) for more than PONG_TIMEOUT; every other peer keeps
\* its socket and its registration and, if its socket is open, is pinged. So a peer
\* that answered the last ping is not terminated, and a silent one is at the first
\* tick more than PONG_TIMEOUT after its last pong.
C15_Heartbeat ==
  [][now' # now =>
       /\ now' = now + HEARTBEAT_INTERVAL
       /\ \A c \in Conns :
            IF Referenced(c) /\ now' - lastHeard[c] > PONG_TIMEOUT
            THEN /\ sock'[c] # "OPEN"
                 /\ ~rx'[c]
                 /\ ~ReferencedNext(c)
            ELSE /\ sock'[c] = sock[c]
                 /\ rx'[c] = rx[c]
                 /\ ReferencedNext(c) <=> Referenced(c)
                 /\ (Referenced(c) /\ sock[c] = "OPEN") =>
                       c \in Pinged([R EXCEPT !.now = now'])
    ]_vars

\* the Relay has answered an auth frame of the connection with AUTH_FAILED
AuthFailed(c) == \E i \in DOMAIN outbox[c] : outbox[c][i] = ErrorFrame("AUTH_FAILED")

\* C16: once a connection has been answered AUTH_FAILED, no step writes a further
\* frame to it, binds it as the agent or adds it to the client set.
C16_AuthFailedFinal ==
  [][\A c \in Conns :
       AuthFailed(c) =>
         /\ outbox'[c] = outbox[c] \/ outbox'[c] = <<>>
         /\ (agent' # NoAgent /\ agent'.ws = c) => agent' = agent
         /\ c \in DOMAIN clients' => c \in DOMAIN clients
    ]_vars

\* the command frame a peer can send
CommandFrame == [type |-> "command", token |-> "-", role |-> "-"]

\* C17: when an authenticated client with an open socket sends a command while
\* the agent slot is empty or holds a socket that is not open, the step appends
\* error NO_AGENT to the sender's frames and changes nothing else: no other peer
\* gets a frame and the Relay keeps nothing of the command.
C17_NoAgent ==
  [][\A c \in Conns :
       (/\ sock[c] = "OPEN"
        /\ authenticated[c]
        /\ role[c] = "client"
        /\ agent = NoAgent \/ sock[agent.ws] # "OPEN"
        /\ IsMessage(c, CommandFrame))
       => NextR = [R EXCEPT !.outbox[c] = Append(@, ErrorFrame("NO_AGENT"))]
    ]_vars

\* a client was answered NO_AGENT while the slot holds an agent whose socket is closing
C17_Witness ==
  \E c \in Conns :
    /\ sock[c] = "OPEN"
    /\ role[c] = "client"
    /\ outbox[c] # <<>>
    /\ outbox[c][Len(outbox[c])] = ErrorFrame("NO_AGENT")
    /\ agent # NoAgent
    /\ agent.ws # c
    /\ sock[agent.ws] = "CLOSING"

\* C18: a socket on which ws.send threw during a step is closed and removed by
\* that step: it is no longer open, no longer in the client set and no longer the
\* agent, and if it was the agent every open client gets agent_disconnected.
C18_SendFailureCloses ==
  [][\A c \in sendFailed' :
       /\ sock'[c] # "OPEN"
       /\ ~ReferencedNext(c)
       /\ (agent # NoAgent /\ agent.ws = c) =>
            \A d \in DOMAIN clients' :
               sock'[d] = "OPEN" => AgentDisconnected \in NewFrames(d)
    ]_vars

\* the output frame a peer can send
OutputFrame == [type |-> "output", token |-> "-", role |-> "-"]

\* C19: in the step that broadcasts a frame of the agent, every client whose socket
\* is open and on which the send did not throw gets exactly that frame, whatever
\* sends threw on other clients, and the agent slot and the client set are unchanged.
C19_BroadcastIsolated ==
  [][\A a \in Conns :
       (/\ authenticated[a]
        /\ role[a] = "agent"
        /\ IsMessage(a, OutputFrame))
       => /\ agent' = agent
          /\ clients' = clients
          /\ \A c \in DOMAIN clients :
               (sock[c] = "OPEN" /\ c \notin sendFailed') =>
                  NewFrames(c) = <<Forwarded(OutputFrame, a, nsent[a] + 1)>>
    ]_vars

\* a frame of the agent reached one client although the send to another one threw
C19_Witness ==
  \E c, d \in DOMAIN clients :
    /\ agent # NoAgent
    /\ agent.ws \notin {c, d}
    /\ d \in sendFailed
    /\ c \notin sendFailed
    /\ sock[c] = "OPEN"
    /\ outbox[c] # <<>>
    /\ outbox[c][Len(outbox[c])] = Forwarded(OutputFrame, agent.ws, nsent[agent.ws])

\* C20: a frame that is not valid JSON on an open socket makes the step append
\* error INVALID_JSON to the sender's frames and change nothing else: the socket
\* stays open and authenticated, role, agent slot and client set are unchanged,
\* whether the connection is authenticated or not.
C20_InvalidJson ==
  [][\A c \in Conns :
       (sock[c] = "OPEN" /\ IsMessage(c, BadJson))
       => NextR = [R EXCEPT !.outbox[c] = Append(@, ErrorFrame("INVALID_JSON"))]
    ]_vars

\* INVALID_JSON was the last answer on an open authenticated connection and on an
\* open connection that has not authenticated
C20_Witness ==
  \E c, d \in Conns :
    /\ sock[c] = "OPEN" /\ sock[d] = "OPEN"
    /\ authenticated[c] /\ ~authenticated[d]
    /\ outbox[c] # <<>> /\ outbox[c][Len(outbox[c])] = ErrorFrame("INVALID_JSON")
    /\ outbox[d] # <<>> /\ outbox[d][Len(outbox[d])] = ErrorFrame("INVALID_JSON")

\* the connections that are authenticated clients (closure variables of the handler)
ClientConns == {c \in Conns : authenticated[c] /\ role[c] = "client"}

\* C21: GET /health answers agent = true exactly when the agent slot holds an open
\* socket, and clients = the number of connections in a set that holds every
\* authenticated client whose socket is open and nothing but authenticated clients
\* whose socket has not closed.
C21_Health ==
  /\ health(R).status = "ok"
  /\ health(R).agent <=> (agent # NoAgent /\ sock[agent.ws] = "OPEN")
  /\ \E S \in SUBSET Conns :
       /\ health(R).clients = Cardinality(S)
       /\ S = DOMAIN clients
       /\ {c \in ClientConns : sock[c] = "OPEN"} \subseteq S
       /\ S \subseteq {c \in ClientConns : sock[c] # "CLOSED"}

\* C22: in every state in which commands are handled and project p has no
\* session, start_session for p followed by close_session for the session id it
\* returned leaves the session table, the open history records and the
\* sessionProjectMap as they were before the two commands; the PTY of the session
\* is killed and its summary on disk has an endTime.
C22_StartThenClose ==
  (agentWs = "OPEN" /\ sessionManager /\ ~halted) =>
    \A p \in ProjectIds :
      (\A s \in DOMAIN sessions : sessions[s].projectId # ProjectOf(p)) =>
        LET sid == nextId
            s1 == onAgentMessage(A, Command("start_session", p, 0))
            s2 == onAgentMessage(s1, Command("close_session", "", sid))
        IN /\ sid \in DOMAIN s1.sessions
           /\ s1.sessions[sid].projectId = ProjectOf(p)
           /\ s1.pty[sid] = "running"
           /\ s2.sessions = sessions
           /\ s2.records = records
           /\ s2.sessionProjectMap = sessionProjectMap
           /\ s2.pty[sid] = "killed"
           /\ sid \in DOMAIN s2.summaryFile
           /\ s2.summaryFile[sid].endTime # -1
           /\ s2.upSent = upSent \o
                <<s1.upSent[Len(s1.upSent)], SessionClosed(sid)>>

\* a session was started and closed by close_session, and no session is left
C22_Witness ==
  \E s \in DOMAIN pty :
    /\ pty[s] = "killed"
    /\ sessions = <<>>
    /\ s \notin DOMAIN records
    /\ s \in DOMAIN summaryFile
    /\ summaryFile[s].endTime # -1
    /\ upSent # <<>>
    /\ upSent[Len(upSent)] = SessionClosed(s)

CommandErrors == {"UNKNOWN_COMMAND", "MISSING_SESSION_ID", "MISSING_INPUT", "MISSING_PROJECT_ID",
                  "MISSING_FILE_DATA", "SESSION_NOT_FOUND", "PROJECT_NOT_FOUND"}

\* commands of every kind, with and without their arguments, naming sessions that
\* are in the table, that have left it, and that never existed
AnyCommands ==
  LET ids == 0..nextId
  IN {Command("bogus", "", 0)}
     \cup {FullCommand("send_input", "", sid, h, <<>>, "") : sid \in ids, h \in BOOLEAN}
     \cup {Command(c, "", sid) : c \in {"close_session", "keepalive"}, sid \in ids}
     \cup {Command("start_session", p, 0) : p \in ProjectIds \cup {"nope"}}
     \cup {Command(c, p, 0) : c \in {"get_session_history", "get_context_summary",
                                      "get_last_session_output"}, p \in {"", "p1"}}
     \cup {FullCommand("upload_file", "", sid, TRUE, f, x) :
             sid \in ids, f \in {<<>>, <<"a">>}, x \in {"", "x"}}

\* handling c in the current state answers with one of the errors C24 names
AnswersError(c) ==
  LET up == onAgentMessage(A, c).upSent
  IN /\ Len(up) = Len(upSent) + 1
     /\ up[Len(up)].type = "error"
     /\ up[Len(up)].payload.code \in CommandErrors

\* C24: in every state in which commands are handled, a command that is answered
\* with UNKNOWN_COMMAND, MISSING_*, SESSION_NOT_FOUND or PROJECT_NOT_FOUND leaves
\* the session table (with every lastActivity and status), the PTYs and the set of
\* open history records as they were.
C24_ErrorsChangeNothing ==
  (agentWs = "OPEN" /\ ~halted) =>
    \A c \in AnyCommands :
      AnswersError(c) =>
        /\ onAgentMessage(A, c).sessions = sessions
        /\ onAgentMessage(A, c).pty = pty
        /\ DOMAIN onAgentMessage(A, c).records = DOMAIN records

\* the file name from position i to position j is its basename: it holds no
\* separator, only separators follow it, and a separator, the start of the name or
\* (on win32) a drive prefix precedes it
IsBasename(pf, f, i, j) ==
  LET sep(k) == f[k] = "/" \/ (pf = "win32" /\ f[k] = "\\")
      drive == pf = "win32" /\ Len(f) >= 2 /\ f[1] \in Letters /\ f[2] = ":"
  IN /\ 1 <= i /\ i <= j /\ j <= Len(f)
     /\ \A k \in i..j : ~sep(k)
     /\ \A k \in (j + 1)..Len(f) : sep(k)
     /\ IF drive THEN i >= 3 /\ (i = 3 \/ sep(i - 1)) ELSE i = 1 \/ sep(i - 1)

\* name is the part i..j of f with every character outside [A-Za-z0-9._-] replaced
Replaced(f, i, j, name) ==
  /\ Len(name) = j - i + 1
  /\ \A k \in 1..Len(name) :
       name[k] = IF f[i + k - 1] \in SafeChars THEN f[i + k - 1] ELSE "_"

\* the files the handler writes are direct children of the uploads directory of the
\* session's project, named by the basename of f with the unsafe characters replaced
WritesOnlySanitized(sid, f) ==
  \A t \in upload_file(A, UploadCommand(sid, f)).uploads \ uploads :
    /\ t.dir = <<sessions[sid].projectId, "uploads">>
    /\ \E i, j \in 1..Len(f) : IsBasename(platform, f, i, j) /\ Replaced(f, i, j, t.name)

C26_Keepalive ==
  [][/\ upSent' # upSent \/ sessions' # sessions =>
          \A sid \in 1..nextId :
            IsReceive(Command("keepalive", "", sid)) =>
              IF sid \in DOMAIN sessions
              THEN NextA = [A EXCEPT !.sessions[sid].lastActivity = agentNow]
              ELSE NextA = [A EXCEPT !.upSent =
                              Append(@, ErrorMessage("SESSION_NOT_FOUND", sid))]
     /\ \A sid \in DOMAIN sessions \cap DOMAIN sessions' :
          sessions'[sid].lastActivity >= sessions[sid].lastActivity
     /\ agentNow' # agentNow =>
          \A sid \in DOMAIN sessions \ DOMAIN sessions' :
            agentNow' - sessions[sid].lastActivity > IDLE_TIMEOUT
    ]_vars

\* a session started at time 0 is alive after more than 30 minutes and a scan of the
\* idle reaper, its lastActivity set by a keepalive; an unknown id was refused
C26_Witness ==
  /\ 1 \in DOMAIN sessions /\ 1 \in DOMAIN records
  /\ records[1].startTime = 0
  /\ sessions[1].lastActivity = IDLE_TIMEOUT
  /\ agentNow >= IDLE_TIMEOUT + IDLE_CHECK_INTERVAL
  /\ \E i \in 1..Len(upSent) : upSent[i] = ErrorMessage("SESSION_NOT_FOUND", 2)

\* the sessions of a list
InList(list) == {list[i] : i \in DOMAIN list}

\* C27: after the browser Client processes a sessions_list status its list holds
\* every session of the Agent's list, every cached session absent from the Agent's
\* list whose lastActivity is less than five minutes old, and nothing else: a cached
\* session absent from the Agent's list and five minutes old or older is removed.
C27_SessionsListMerge ==
  [][(inbox # NoMessage /\ inbox' = NoMessage) =>
       LET agentSessions == inbox.sessions
           ids == {agentSessions[i].sessionId : i \in DOMAIN agentSessions}
           recent(x) == browserNow - x.lastActivity < FIVE_MINUTES
       IN /\ InList(agentSessions) \subseteq InList(clientSessions')
          /\ \A x \in InList(clientSessions') :
               \/ x \in InList(agentSessions)
               \/ x \in InList(clientSessions) /\ x.sessionId \notin ids /\ recent(x)
          /\ \A x \in InList(clientSessions) :
               x.sessionId \notin ids =>
                 (x \in InList(clientSessions') <=> recent(x))
    ]_vars

\* a list was processed that kept one cached session and removed another
C27_Witness ==
  /\ handled = 1
  /\ Len(clientSessions) = 2
  /\ clientSessions[1] = [sessionId |-> "s1", lastActivity |-> 0]
  /\ clientSessions[2] = [sessionId |-> "s2", lastActivity |-> 2]
  /\ browserNow = FIVE_MINUTES + 1

\* C28: once every frame the Relay has sent to a connected, authenticated Client
\* has been delivered, the Client's agentConnected flag equals the Relay's hasAgent().
C28_AgentFlag ==
  \A c \in DOMAIN clients :
    (sock[c] = "OPEN" /\ authenticated[c] /\ role[c] = "client") =>
      agentConnectedOf(outbox[c]) = hasAgent(R)

\* C29: every message the OutputFormatter passes to its output callback is at most
\* 4096 characters long, code fence and continuation markers included.
C29_MaxLength ==
  \A i \in DOMAIN sentMessages : sentMessages[i].length <= TELEGRAM_MAX_LENGTH

\* C30: after every close of the uplink socket the Agent calls connect again, timers
\* firing (the process has not exited), and at any time at most one reconnect timer
\* is pending and at most one uplink socket exists.
C30_Reconnect ==
  /\ [](uplinks <= 1 /\ timeouts <= 1)
  /\ (agentWs = "null" /\ ~halted) ~> (agentWs = "CONNECTING" \/ halted)

\* the one close so far was followed by connect
C30_Witness ==
  /\ attempt = 1
  /\ agentWs = "CONNECTING"
  /\ uplinks = 1 /\ timeouts = 0
  /\ ~halted

\* C31: a write to a PTY, the delayed ones (the launch command and the extra Enter)
\* included, is made only while the session is in the session table, so never to
\* the PTY of a session that was closed or has exited.
C31_DelayedWrites ==
  [][Len(written') > Len(written) =>
       /\ Len(written') = Len(written) + 1
       /\ LET w == written'[Len(written')]
          IN /\ w.sessionId \in DOMAIN sessions
             /\ pty[w.sessionId] = "running"
             /\ (Len(pending') < Len(pending) => w.kind \in {"launch", "enter"})]_vars

\* the launch command was written to the session, and after its close the timer of
\* the extra Enter ran and wrote nothing
C31_Witness ==
  /\ written = <<[sessionId |-> 1, kind |-> "launch"], [sessionId |-> 1, kind |-> "input"]>>
  /\ pending = <<>>
  /\ pty = <<"killed">>
  /\ sessions = <<>>

RECURSIVE StreamOf(_)
\* the chunks of a log, concatenated
StreamOf(chunks) == IF chunks = <<>> THEN <<>> ELSE Head(chunks).data \o StreamOf(Tail(chunks))

\* the pieces of the stream that a "\n" ends
CompleteLines(stream) == LET pieces == split(stream) IN SubSeq(pieces, 1, Len(pieces) - 1)

\* the last n elements of s, all of s if it has fewer
LastOf(s, n) == IF Len(s) <= n THEN s ELSE SubSeq(s, Len(s) - n + 1, Len(s))

\* C32: the buffer of a session holds the last at most 100 complete lines of its
\* PTY stream, oldest first, the tail of a chunk joined with the start of the next,
\* and never more than 100 entries.
C32_BufferLines ==
  \A sessionId \in DOMAIN sessions :
    sessionId \in DOMAIN records =>
      /\ Len(sessions[sessionId].buffer) <= BUFFER_MAX_LINES
      /\ sessions[sessionId].buffer =
           LastOf(CompleteLines(StreamOf(outputFile[sessionId])), BUFFER_MAX_LINES)

\* C33: the lastActivity of a session in the table never decreases, and after every
\* successful send_input and every PTY data chunk the session's status is active
\* and its lastActivity is the time of the event.
C33_LastActivity ==
  [][/\ \A sid \in DOMAIN sessions \cap DOMAIN sessions' :
          sessions'[sid].lastActivity >= sessions[sid].lastActivity
     /\ produced' # produced =>
          \A sid \in DOMAIN sessions, data \in Chunks :
            NextA = onData(A, sid, produced', data) =>
              /\ sid \in DOMAIN sessions'
              /\ sessions'[sid].status = "active"
              /\ sessions'[sid].lastActivity = agentNow'
     /\ (produced' = produced /\ agentNow' = agentNow /\ upSent' = upSent
           /\ agentSteps' # agentSteps) =>
          \A sid \in DOMAIN sessions :
            IsReceive(Command("send_input", "", sid)) =>
              /\ sid \in DOMAIN sessions'
              /\ sessions'[sid].status = "active"
              /\ sessions'[sid].lastActivity = agentNow
    ]_vars

\* a session started at time 0 got input later, and then its PTY wrote a chunk, later
\* again
C33_Witness ==
  /\ 1 \in DOMAIN sessions /\ 1 \in DOMAIN records
  /\ records[1].startTime = 0
  /\ produced = 1
  /\ agentNow = 2 * TickLen
  /\ sessions[1].lastActivity = agentNow
  /\ sessions[1].status = "active"

\* C34: for every session that has ended (by close_session, the idle reaper,
\* replacement in start_session or PTY exit, the exit event after a kill included)
\* the session-closed callback was invoked exactly once, and status session_closed
\* for it was written at most once; for a session in the table, never.
C34_ClosedOnce ==
  \A sessionId \in DOMAIN pty :
    /\ closedCalls[sessionId] = (IF sessionId \in DOMAIN sessions THEN 0 ELSE 1)
    /\ Cardinality({i \in DOMAIN upSent : upSent[i] = SessionClosed(sessionId)}) <= 1

\* C35: the role of a connection is fixed by its first successful auth: no later
\* frame on the authenticated connection changes it, no connection is the agent
\* slot's connection and a member of the client set at once, and no frame the
\* Agent's connection sends is written back to that connection.
C35_RoleFixed ==
  /\ [](agent # NoAgent => agent.ws \notin DOMAIN clients)
  /\ [][\A c \in Conns :
          /\ (sock[c] = "OPEN" /\ authenticated[c] /\ sock'[c] = "OPEN") => role'[c] = role[c]
          /\ (agent # NoAgent /\ agent.ws = c /\ nsent'[c] # nsent[c]) =>
                \A i \in DOMAIN NewFrames(c) : NewFrames(c)[i].src # c]_vars

NextRC == [sockets |-> clientSockets', ws |-> clientWs', state |-> clientState',
           reconnectAttempt |-> reconnectAttempt', reconnectTimer |-> reconnectTimer',
           pingInterval |-> pingInterval', shouldReconnect |-> shouldReconnect',
           timeouts |-> clientTimeouts']

\* the step is the RelayClient's handleMessage of frame m
IsClientMessage(m) == clientHandled' # clientHandled /\ NextRC = clientHandleMessage(RC, m)

\* C36: the RelayClient sets its attempt counter back to 0 only when it handles a
\* status connected with role client (an agent_connected broadcast leaves it);
\* when a socket closes it has a reconnect timer pending exactly if disconnect() was
\* never called; at most one reconnect timer is pending at any time; and after
\* disconnect() no timer is pending and a socket is made only by a call of connect().
C36_ClientReconnect ==
  /\ [](clientTimeouts <= 1 /\ (~shouldReconnect => clientTimeouts = 0))
  /\ [][/\ reconnectAttempt' # reconnectAttempt =>
             \/ reconnectAttempt' = reconnectAttempt + 1
             \/ /\ reconnectAttempt' = 0
                /\ \E ac \in BOOLEAN : IsClientMessage(Connected("client", ac))
        /\ (IsClientMessage(AgentConnected) \/ IsClientMessage(AgentDisconnected)) =>
             reconnectAttempt' = reconnectAttempt
        /\ \A i \in DOMAIN clientSockets :
             (clientSockets[i] # "CLOSED" /\ clientSockets'[i] = "CLOSED") =>
                /\ reconnectTimer' <=> shouldReconnect
                /\ clientTimeouts' = (IF shouldReconnect THEN 1 ELSE 0)
                /\ shouldReconnect => reconnectAttempt' = reconnectAttempt + 1
        /\ (~shouldReconnect /\ clientSockets' # clientSockets /\ clientTimeouts = 0) =>
             \/ NextRC = clientConnect(RC)
             \/ Len(clientSockets') = Len(clientSockets)
       ]_vars

\* the first socket closed and the timer made a second one; a status connected set
\* the counter back to 0, disconnect() was called and the second socket closed: no
\* timer is pending
C36_Witness ==
  /\ clientSockets = <<"CLOSED", "CLOSED">>
  /\ ~shouldReconnect
  /\ reconnectAttempt = 0
  /\ clientHandled = 1
  /\ clientTimeouts = 0 /\ ~reconnectTimer

\* C37: the buffer of a session never stays at MAX_BUFFER_SIZE characters or more;
\* while it holds data a flush timer is pending, due BUFFER_TIMEOUT_MS after the last
\* addOutput, and time does not pass that instant with the timer pending; a step
\* that flushes leaves the buffer empty and no timer pending; the messages given to
\* the callback hold the lines in the order they were added, none twice (a line
\* spans two messages only where it was split), and no line that was emitted is
\* still in the buffer.
C37_Flush ==
  /\ [](/\ contentLength(bufferContent) < MAX_BUFFER_SIZE
        /\ bufferContent # <<>> => flushPending
        /\ flushPending =>
             /\ bufferTimer
             /\ timerDue = lastAdded + BUFFER_TIMEOUT_MS
             /\ formatterNow <= timerDue
        /\ \A j \in DOMAIN sentMessages :
             /\ sentMessages[j].first <= sentMessages[j].last
             /\ \A i \in 1..(j - 1) :
                  \/ sentMessages[i].last < sentMessages[j].first
                  \/ /\ sentMessages[i].last = sentMessages[j].first
                     /\ sentMessages[i].first = sentMessages[j].last
                     /\ sentMessages[i].hasMore
                     /\ sentMessages[j].isContinuation
             /\ \A k \in DOMAIN bufferContent :
                  sentMessages[j].last < bufferContent[k].id)
  /\ [][(sentMessages' # sentMessages \/ (bufferContent # <<>> /\ bufferContent' = <<>>)) =>
          /\ bufferContent' = <<>>
          /\ ~flushPending'
          /\ ~bufferTimer'
          /\ \/ addedLines' # addedLines
                   /\ \E data \in FlushData(addedLines') :
                        contentLength(bufferContent \o data) >= MAX_BUFFER_SIZE
             \/ addedLines' = addedLines
       ]_vars

\* two lines were added, a quarter of a second apart; the timer fired
\* BUFFER_TIMEOUT_MS after the second and one message with both was emitted
C37_Witness ==
  /\ lastAdded = FormatterTick
  /\ formatterNow = FormatterTick + BUFFER_TIMEOUT_MS
  /\ Len(sentMessages) = 1
  /\ sentMessages[1].first = 1 /\ sentMessages[1].last = 2
  /\ bufferContent = <<>>
  /\ ~flushPending

\* the default memory of version 1, as export() gives it
EmptyMemory == [version |-> 1, preferences |-> NoEntries, projectFacts |-> NoEntries,
                recentContext |-> NoEntries]

\* C38: after clear(), export() is the default memory of version 1 (no preference,
\* no project facts, no context entry) and memory.json holds that empty memory,
\* whatever was recorded before, whether the manager started from the default
\* memory or from a file, and whether or not a save was pending.
C38_ClearEmpties ==
  [][memoryHeap' = clear(MM).heap /\ memory' = clear(MM).memory /\ memoryFile' = clear(MM).file
       /\ dirty' = clear(MM).dirty /\ saveDebounceTimer' = saveDebounceTimer
       /\ memorySteps' # memorySteps
     => /\ stringify([heap |-> memoryHeap', memory |-> memory']) = EmptyMemory
        /\ memoryFile' = <<EmptyMemory>>]_vars

\* the status of the task with this id, "absent" if the Map has none
statusOf(tasks, taskId) ==
  IF indexOfTask(tasks, taskId) = 0 THEN "absent" ELSE tasks[indexOfTask(tasks, taskId)].status

\* the elements of a sequence
Elements(s) == {s[i] : i \in DOMAIN s}

\* the step is a request to or a call of the TaskWatcher, of this kind
IsTaskCall(op) == taskSteps' # taskSteps /\ taskCall'.op = op

\* what the webhook, getPendingTasks and clearCompleted do
C39_Step ==
  /\ (IsTaskCall("webhook") /\ taskCall'.code = 200) =>
        /\ statusOf(pendingTasks', taskCall'.taskId) = "pending_approval"
        /\ Len(taskReceived') = Len(taskReceived) + 1
        /\ taskReceived'[Len(taskReceived')].taskId = taskCall'.taskId
        /\ taskReceived'[Len(taskReceived')].status = "pending_approval"
  /\ (IsTaskCall("webhook") /\ taskCall'.code # 200) =>
        pendingTasks' = pendingTasks /\ taskReceived' = taskReceived
  /\ IsTaskCall("getPendingTasks") =>
        /\ Elements(taskCall'.tasks) = {t \in Elements(pendingTasks) : t.status = "pending_approval"}
        /\ Len(taskCall'.tasks) = Cardinality(Elements(taskCall'.tasks))
        /\ pendingTasks' = pendingTasks
  /\ IsTaskCall("clearCompleted") =>
        /\ Elements(pendingTasks') =
              {t \in Elements(pendingTasks) : t.status \notin {"completed", "rejected"}}
        /\ Len(pendingTasks') = Cardinality(Elements(pendingTasks'))
        /\ taskCall'.count = Len(pendingTasks) - Len(pendingTasks')

\* approveTask and rejectTask act on a task in pending_approval and on no other
C39_Decide ==
  \A taskId \in TaskIds :
    /\ (IsTaskCall("approveTask") /\ taskCall'.taskId = taskId) =>
          IF statusOf(pendingTasks, taskId) = "pending_approval"
          THEN /\ statusOf(pendingTasks', taskId) = "approved"
               /\ taskCall'.tasks = <<pendingTasks'[indexOfTask(pendingTasks', taskId)]>>
               /\ \A other \in TaskIds \ {taskId} :
                     statusOf(pendingTasks', other) = statusOf(pendingTasks, other)
          ELSE pendingTasks' = pendingTasks /\ taskCall'.tasks = null
    /\ (IsTaskCall("rejectTask") /\ taskCall'.taskId = taskId) =>
          IF statusOf(pendingTasks, taskId) = "pending_approval"
          THEN /\ statusOf(pendingTasks', taskId) = "rejected"
               /\ taskCall'.ok
               /\ \A other \in TaskIds \ {taskId} :
                     statusOf(pendingTasks', other) = statusOf(pendingTasks, other)
          ELSE pendingTasks' = pendingTasks /\ ~taskCall'.ok

\* C39: a received task starts in pending_approval; approveTask and rejectTask
\* change a status only when it is pending_approval, so a task that has been
\* approved is never rejected afterwards and one that has been rejected is never
\* approved afterwards; getPendingTasks lists exactly the pending_approval tasks
\* and clearCompleted removes exactly the completed and rejected ones.
C39_TaskStatus ==
  /\ [][C39_Step /\ C39_Decide]_vars
  /\ [](\A taskId \in TaskIds :
          ~(<<taskId, "approved">> \in taskHistory /\ <<taskId, "rejected">> \in taskHistory))

====
